---- MODULE Spec2Model ----
(***************************************************************************)
(* A model of the ts-rest route annotation extension: the contract parser  *)
(* (static evaluation of a contract file, route lookup, path composition,  *)
(* module resolution), the decorator extractor of the AST parser, and the  *)
(* route annotation provider with its two caches.                          *)
(*                                                                         *)
(* JavaScript strings are sequences of one-character strings, so that      *)
(* startsWith, endsWith, slice, concatenation and toUpperCase are computed *)
(* and not assumed.  JavaScript values are tagged records; objects and     *)
(* Maps are sequences of <<key, value>> pairs in insertion order.          *)
(***************************************************************************)
EXTENDS Naturals, Sequences, FiniteSets, TLC

(***************************************************************************)
(* Bounds of the model.                                                    *)
(***************************************************************************)
MaxPathLen == 3
MaxStatements == 2
MaxModifiers == 2
MaxTime == 3

(***************************************************************************)
(* JavaScript values.                                                      *)
(***************************************************************************)
Undef == [t |-> "undefined"]
Null == [t |-> "null"]
Throw == [t |-> "throw"]
Str(s) == [t |-> "str", s |-> s]
Num(n) == [t |-> "num", n |-> n]
Bool(b) == [t |-> "bool", b |-> b]
Obj(kv) == [t |-> "obj", kv |-> kv]

IsStr(v) == v.t = "str"
IsObj(v) == v.t = "obj"

\* JavaScript truthiness, as used by `!x`, `x || y` and `if (x)`.
Truthy(v) ==
  CASE v.t = "str" -> v.s # <<>>
    [] v.t = "num" -> v.n # 0
    [] v.t = "bool" -> v.b
    [] v.t = "obj" -> TRUE
    [] OTHER -> FALSE

\* a || b
Or(a, b) == IF Truthy(a) THEN a ELSE b

(***************************************************************************)
(* String primitives.                                                      *)
(***************************************************************************)
startsWith(s, c) == Len(s) > 0 /\ s[1] = c
endsWith(s, c) == Len(s) > 0 /\ s[Len(s)] = c
\* s.slice(0, -1)
sliceDropLast(s) == SubSeq(s, 1, Len(s) - 1)

UpperChar(c) ==
  CASE c = "a" -> "A" [] c = "b" -> "B" [] c = "c" -> "C" [] c = "d" -> "D"
    [] c = "e" -> "E" [] c = "f" -> "F" [] c = "g" -> "G" [] c = "h" -> "H"
    [] c = "i" -> "I" [] c = "j" -> "J" [] c = "k" -> "K" [] c = "l" -> "L"
    [] c = "m" -> "M" [] c = "n" -> "N" [] c = "o" -> "O" [] c = "p" -> "P"
    [] c = "q" -> "Q" [] c = "r" -> "R" [] c = "s" -> "S" [] c = "t" -> "T"
    [] c = "u" -> "U" [] c = "v" -> "V" [] c = "w" -> "W" [] c = "x" -> "X"
    [] c = "y" -> "Y" [] c = "z" -> "Z"
    [] OTHER -> c

toUpperCase(s) == [i \in 1..Len(s) |-> UpperChar(s[i])]

LowerChar(c) ==
  CASE c = "A" -> "a" [] c = "B" -> "b" [] c = "C" -> "c" [] c = "D" -> "d"
    [] c = "E" -> "e" [] c = "F" -> "f" [] c = "G" -> "g" [] c = "H" -> "h"
    [] c = "I" -> "i" [] c = "J" -> "j" [] c = "K" -> "k" [] c = "L" -> "l"
    [] c = "M" -> "m" [] c = "N" -> "n" [] c = "O" -> "o" [] c = "P" -> "p"
    [] c = "Q" -> "q" [] c = "R" -> "r" [] c = "S" -> "s" [] c = "T" -> "t"
    [] c = "U" -> "u" [] c = "V" -> "v" [] c = "W" -> "w" [] c = "X" -> "x"
    [] c = "Y" -> "y" [] c = "Z" -> "z"
    [] OTHER -> c

toLowerCase(s) == [i \in 1..Len(s) |-> LowerChar(s[i])]

(***************************************************************************)
(* ContractParser.combinePaths.  The arguments are whatever values the     *)
(* export table holds; calling startsWith on a value that is no string is  *)
(* a TypeError.                                                            *)
(***************************************************************************)
\* combinePaths without the default "/" for an empty result
combinePaths_noDefault(pathPrefix, routePath) ==
  IF ~Truthy(pathPrefix) THEN routePath
  ELSE IF ~Truthy(routePath) \/ routePath = Str(<<"/">>) THEN pathPrefix
  ELSE IF ~IsStr(pathPrefix) \/ ~IsStr(routePath) THEN Throw
  ELSE LET normalizedPrefix == IF startsWith(pathPrefix.s, "/") THEN pathPrefix.s
                                ELSE <<"/">> \o pathPrefix.s
           normalizedRoute == IF startsWith(routePath.s, "/") THEN routePath.s
                               ELSE <<"/">> \o routePath.s
           cleanPrefix == IF endsWith(normalizedPrefix, "/") /\ normalizedRoute # <<"/">>
                           THEN sliceDropLast(normalizedPrefix)
                           ELSE normalizedPrefix
       IN Str(cleanPrefix \o normalizedRoute)

\* combinePaths that keeps the trailing slash of the prefix
combinePaths_keepSlash(pathPrefix, routePath) ==
  IF ~Truthy(pathPrefix) THEN Or(routePath, Str(<<"/">>))
  ELSE IF ~Truthy(routePath) \/ routePath = Str(<<"/">>) THEN pathPrefix
  ELSE IF ~IsStr(pathPrefix) \/ ~IsStr(routePath) THEN Throw
  ELSE LET normalizedPrefix == IF startsWith(pathPrefix.s, "/") THEN pathPrefix.s
                                ELSE <<"/">> \o pathPrefix.s
           normalizedRoute == IF startsWith(routePath.s, "/") THEN routePath.s
                               ELSE <<"/">> \o routePath.s
       IN Str(normalizedPrefix \o normalizedRoute)

combinePaths(pathPrefix, routePath) ==
  IF ~Truthy(pathPrefix) THEN Or(routePath, Str(<<"/">>))
  ELSE IF ~Truthy(routePath) \/ routePath = Str(<<"/">>) THEN pathPrefix
  ELSE IF ~IsStr(pathPrefix) \/ ~IsStr(routePath) THEN Throw
  ELSE LET normalizedPrefix == IF startsWith(pathPrefix.s, "/") THEN pathPrefix.s
                                ELSE <<"/">> \o pathPrefix.s
           normalizedRoute == IF startsWith(routePath.s, "/") THEN routePath.s
                               ELSE <<"/">> \o routePath.s
           cleanPrefix == IF endsWith(normalizedPrefix, "/") /\ normalizedRoute # <<"/">>
                           THEN sliceDropLast(normalizedPrefix)
                           ELSE normalizedPrefix
       IN Str(cleanPrefix \o normalizedRoute)

(***************************************************************************)
(* Objects and Maps: <<key, value>> pairs in insertion order.  Writing an  *)
(* existing key keeps its place, as in JavaScript.  Keys are identifiers   *)
(* (no integer-like keys, which JavaScript would order first).             *)
(***************************************************************************)
Has(kv, key) == \E i \in 1..Len(kv) : kv[i][1] = key
Get(kv, key) ==
  IF Has(kv, key) THEN kv[CHOOSE i \in 1..Len(kv) : kv[i][1] = key][2] ELSE Undef
Put(kv, key, value) ==
  IF Has(kv, key)
  THEN [i \in 1..Len(kv) |-> IF kv[i][1] = key THEN <<key, value>> ELSE kv[i]]
  ELSE Append(kv, <<key, value>>)

\* v[key] for a value that is not null or undefined.
Prop(v, key) == IF IsObj(v) THEN Get(v.kv, key) ELSE Undef

RECURSIVE AssignFrom(_, _, _)
AssignFrom(target, source, i) ==
  IF i > Len(source) THEN target
  ELSE AssignFrom(Put(target, source[i][1], source[i][2]), source, i + 1)

\* Object.assign(target, source) for a truthy source: an object's own
\* entries are copied in order, a number or a boolean has none.  (A string
\* source, which would copy its characters, is not among the inputs.)
ObjectAssign(target, source) ==
  IF IsObj(source) THEN AssignFrom(target, source.kv, 1) ELSE target

\* The keys of the model that begin with two underscores
\* (key.startsWith('__')).
DunderKeys ==
  {"__router", "__options", "__method", "__path", "__call", "__type",
   "__summary", "__group"}
startsWithDunder(key) == key \in DunderKeys

(***************************************************************************)
(* Syntax trees of a contract file, as the TypeScript parser returns them. *)
(***************************************************************************)
Identifier(id) == [k |-> "Identifier", id |-> id]
StringLiteral(text) == [k |-> "StringLiteral", text |-> text]
NumericLiteral(n) == [k |-> "NumericLiteral", n |-> n]
TrueKeyword == [k |-> "TrueKeyword"]
FalseKeyword == [k |-> "FalseKeyword"]
ObjectLiteralExpression(props) == [k |-> "ObjectLiteralExpression", props |-> props]
\* callee: "PropertyAccessExpression" (with the accessed name) or another kind
CallExpression(calleeKind, calleeName, args) ==
  [k |-> "CallExpression", calleeKind |-> calleeKind, calleeName |-> calleeName,
   args |-> args]
PropertyAssignment(nameKind, key, init) ==
  [pk |-> "PropertyAssignment", nameKind |-> nameKind, key |-> key, init |-> init]
MethodDeclaration(nameKind, key) ==
  [pk |-> "MethodDeclaration", nameKind |-> nameKind, key |-> key]
SpreadAssignment == [pk |-> "SpreadAssignment"]

\* c.name(args)
Call(name, args) == CallExpression("PropertyAccessExpression", name, args)
\* key: init
PA(key, init) == PropertyAssignment("Identifier", key, init)

\* ContractParser.getPropertyName: the text of an identifier or a string
\* literal; "" stands for null (both fail the test `if (key)`).
getPropertyName(property) ==
  IF property.nameKind \in {"Identifier", "StringLiteral"} THEN property.key ELSE ""

sRouter == <<"r", "o", "u", "t", "e", "r">>
httpMethods ==
  {<<"g", "e", "t">>, <<"p", "o", "s", "t">>, <<"p", "u", "t">>,
   <<"p", "a", "t", "c", "h">>, <<"d", "e", "l", "e", "t", "e">>,
   <<"h", "e", "a", "d">>, <<"o", "p", "t", "i", "o", "n", "s">>}

isRouterCall(node) ==
  node.calleeKind = "PropertyAccessExpression" /\ node.calleeName = sRouter

isTsRestMethodCall(node) ==
  /\ node.calleeKind = "PropertyAccessExpression"
  /\ toLowerCase(node.calleeName) \in httpMethods

RECURSIVE extractObjectLiteral(_)
RECURSIVE extractProperties(_, _, _)

\* extractRouterCall that drops the options argument
extractRouterCall_noOptions(node) ==
  LET routesObj == IF Len(node.args) >= 1 THEN extractObjectLiteral(node.args[1]) ELSE Null
      router0 == << <<"__router", Bool(TRUE)>> >>
  IN Obj(IF Truthy(routesObj) THEN ObjectAssign(router0, routesObj) ELSE router0)

\* ContractParser.extractRouterCall
extractRouterCall(node) ==
  LET routesObj == IF Len(node.args) >= 1 THEN extractObjectLiteral(node.args[1]) ELSE Null
      options == IF Len(node.args) >= 2 THEN extractObjectLiteral(node.args[2]) ELSE Null
      router0 == << <<"__router", Bool(TRUE)>> >>
      router1 == IF Truthy(routesObj) THEN ObjectAssign(router0, routesObj) ELSE router0
  IN Obj(IF Truthy(options) THEN Put(router1, "__options", options) ELSE router1)

\* ContractParser.extractTsRestMethodCall
extractTsRestMethodCall(node) ==
  IF node.calleeKind # "PropertyAccessExpression" THEN Null
  ELSE
    LET methodName == Str(toUpperCase(node.calleeName))
        route0 == << <<"method", methodName>>, <<"__method", methodName>>,
                     <<"__call", Bool(TRUE)>> >>
        route1 == IF Len(node.args) >= 1 /\ node.args[1].k = "StringLiteral"
                  THEN Put(Put(route0, "path", Str(node.args[1].text)),
                           "__path", Str(node.args[1].text))
                  ELSE route0
        optionsArg == IF Len(node.args) >= 2 THEN extractObjectLiteral(node.args[2])
                      ELSE Null
    IN Obj(IF Truthy(optionsArg) THEN ObjectAssign(route1, optionsArg) ELSE route1)

\* the loop of extractObjectLiteral over node.properties
extractProperties(props, i, obj) ==
  IF i > Len(props) THEN obj
  ELSE
    LET property == props[i] IN
    IF property.pk = "PropertyAssignment" /\ getPropertyName(property) # ""
    THEN extractProperties(props, i + 1,
                           Put(obj, getPropertyName(property), extractObjectLiteral(property.init)))
    ELSE IF property.pk = "MethodDeclaration" /\ getPropertyName(property) # ""
    THEN extractProperties(props, i + 1,
                           Put(obj, getPropertyName(property), Obj(<< <<"__method", Bool(TRUE)>> >>)))
    ELSE extractProperties(props, i + 1, obj)

\* ContractParser.extractObjectLiteral
extractObjectLiteral(node) ==
  CASE node.k = "ObjectLiteralExpression" -> Obj(extractProperties(node.props, 1, <<>>))
    [] node.k = "StringLiteral" -> Str(node.text)
    [] node.k = "NumericLiteral" -> Num(node.n)
    [] node.k = "TrueKeyword" -> Bool(TRUE)
    [] node.k = "FalseKeyword" -> Bool(FALSE)
    [] node.k = "CallExpression" ->
         IF isRouterCall(node) THEN extractRouterCall(node)
         ELSE IF isTsRestMethodCall(node) THEN extractTsRestMethodCall(node)
         ELSE Null
    [] OTHER -> Null

(***************************************************************************)
(* Statements of a contract file, in source order (the visitor walks the   *)
(* tree in pre-order, so nested statements come in source order too).      *)
(***************************************************************************)
\* nameKind: "Identifier" or a binding pattern; hasInit: an initializer exists
VariableDeclaration(nameKind, name, hasInit, init) ==
  [nameKind |-> nameKind, name |-> name, hasInit |-> hasInit, init |-> init]
VariableStatement(isExported, declarations) ==
  [sk |-> "VariableStatement", isExported |-> isExported, declarations |-> declarations]
ExportAssignment(expression) == [sk |-> "ExportAssignment", expression |-> expression]

RECURSIVE processDeclarations(_, _, _)
\* the loop of processVariableStatement over the declarations
processDeclarations(node, i, exports) ==
  IF i > Len(node.declarations) THEN exports
  ELSE
    LET declaration == node.declarations[i]
        value == extractObjectLiteral(declaration.init)
    IN IF declaration.nameKind = "Identifier" /\ declaration.hasInit /\ Truthy(value)
       THEN LET stored == Put(exports, declaration.name, value)
            IN processDeclarations(node, i + 1,
                 IF node.isExported /\ Len(node.declarations) = 1
                 THEN Put(stored, "default", value) ELSE stored)
       ELSE processDeclarations(node, i + 1, exports)

\* ContractParser.processVariableStatement
processVariableStatement(node, exports) == processDeclarations(node, 1, exports)

\* ContractParser.processExportAssignment
processExportAssignment(node, exports) ==
  LET value == extractObjectLiteral(node.expression)
  IN IF Truthy(value) THEN Put(exports, "default", value) ELSE exports

\* the visitor of extractExports on one statement
visitStatement(node, exports) ==
  IF node.sk = "VariableStatement" THEN processVariableStatement(node, exports)
  ELSE IF node.sk = "ExportAssignment" THEN processExportAssignment(node, exports)
  ELSE exports

RECURSIVE visitFrom(_, _, _)
visitFrom(statements, i, exports) ==
  IF i > Len(statements) THEN exports
  ELSE visitFrom(statements, i + 1, visitStatement(statements[i], exports))

\* ContractParser.extractExports
extractExports(sourceFile) == visitFrom(sourceFile, 1, <<>>)

(***************************************************************************)
(* Route lookup.                                                           *)
(***************************************************************************)
\* The first iteration of a for-of loop that succeeds: the least index in S,
\* or 0 when no iteration does.
FirstIndex(S) ==
  IF S = {} THEN 0 ELSE CHOOSE i \in S : \A j \in S : i <= j

\* findRouteInContract without the test of the path's length: an empty
\* path lands on the object itself
findRouteInContract_emptyPath(contractObj, propertyPath) ==
  IF ~Truthy(contractObj) \/ ~IsObj(contractObj) THEN Null
  ELSE IF Len(propertyPath) = 0 THEN contractObj
  ELSE
    LET routeName == propertyPath[1]
        entries == contractObj.kv
        holds(i) == /\ IsObj(entries[i][2])
                    /\ ~startsWithDunder(entries[i][1])
                    /\ Truthy(Prop(entries[i][2], routeName))
        found == FirstIndex({i \in 1..Len(entries) : holds(i)})
    IN IF Truthy(Prop(contractObj, routeName)) THEN Prop(contractObj, routeName)
       ELSE IF found # 0 THEN Prop(entries[found][2], routeName)
       ELSE Null

\* ContractParser.findRouteInContract.  A falsy result is returned as Null:
\* the callers only test it for truthiness.
findRouteInContract(contractObj, propertyPath) ==
  IF ~Truthy(contractObj) \/ ~IsObj(contractObj) \/ Len(propertyPath) = 0 THEN Null
  ELSE
    LET routeName == propertyPath[1]
        entries == contractObj.kv
        holds(i) == /\ IsObj(entries[i][2])
                    /\ ~startsWithDunder(entries[i][1])
                    /\ Truthy(Prop(entries[i][2], routeName))
        found == FirstIndex({i \in 1..Len(entries) : holds(i)})
    IN IF Truthy(Prop(contractObj, routeName)) THEN Prop(contractObj, routeName)
       ELSE IF found # 0 THEN Prop(entries[found][2], routeName)
       ELSE Null

RECURSIVE navigate(_, _, _)
\* the loop of findContractByPath over the rest of the path
navigate(current, propertyPath, i) ==
  IF i > Len(propertyPath) THEN current
  ELSE IF IsObj(current) /\ Has(current.kv, propertyPath[i])
       THEN navigate(Get(current.kv, propertyPath[i]), propertyPath, i + 1)
       ELSE Null

\* ContractParser.findContractByPath
findContractByPath(exports, propertyPath) ==
  IF Len(propertyPath) = 0 THEN Null
  ELSE LET current == Or(Get(exports, propertyPath[1]), Get(exports, "default"))
       IN IF ~Truthy(current) THEN Null ELSE navigate(current, propertyPath, 2)

ContractDefinition(method, path, summary) ==
  [t |-> "definition", method |-> method, path |-> path, summary |-> summary]

sGET == <<"G", "E", "T">>
sRoute == <<"r", "o", "u", "t", "e">>

\* ContractParser.extractFromTsRestRoute; toUpperCase on a method that is
\* no string is a TypeError.
extractFromTsRestRoute(contractObj) ==
  LET method == Or(Or(Prop(contractObj, "method"), Prop(contractObj, "__method")), Str(sGET))
      path == Or(Or(Prop(contractObj, "path"), Prop(contractObj, "__path")), Str(<<"/">>))
  IN IF ~IsStr(method) THEN Throw
     ELSE ContractDefinition(Str(toUpperCase(method.s)), path,
                             Or(Prop(contractObj, "summary"), Prop(contractObj, "__summary")))

RECURSIVE extractRouteDefinition(_)
\* ContractParser.extractRouteDefinition
extractRouteDefinition(contractObj) ==
  IF ~Truthy(contractObj) \/ ~IsObj(contractObj) THEN Null
  ELSE IF Truthy(Prop(contractObj, "method")) \/ Truthy(Prop(contractObj, "path"))
  THEN ContractDefinition(Prop(contractObj, "method"), Prop(contractObj, "path"),
                          Prop(contractObj, "summary"))
  ELSE IF Truthy(Prop(contractObj, "__call")) \/ Prop(contractObj, "__type") = Str(sRoute)
  THEN extractFromTsRestRoute(contractObj)
  ELSE IF Truthy(Prop(contractObj, "route"))
  THEN extractRouteDefinition(Prop(contractObj, "route"))
  ELSE IF Truthy(Prop(contractObj, "__method")) \/ Truthy(Prop(contractObj, "__path"))
  THEN ContractDefinition(Prop(contractObj, "__method"), Prop(contractObj, "__path"),
                          Or(Prop(contractObj, "__summary"), Prop(contractObj, "summary")))
  ELSE Null

\* value.__router && value.__options && value.__options.pathPrefix
routerPathPrefix(value) ==
  IF /\ Truthy(Prop(value, "__router"))
     /\ Truthy(Prop(value, "__options"))
     /\ Truthy(Prop(Prop(value, "__options"), "pathPrefix"))
  THEN Prop(Prop(value, "__options"), "pathPrefix")
  ELSE Undef

\* One round of the outer loop of findPathPrefix: the prefix found at one
\* export (itself, then its children in key order), or Undef.
exportPathPrefix(exportValue) ==
  IF ~(Truthy(exportValue) /\ IsObj(exportValue)) THEN Undef
  ELSE IF Truthy(routerPathPrefix(exportValue)) THEN routerPathPrefix(exportValue)
  ELSE LET entries == exportValue.kv
           holds(i) == IsObj(entries[i][2]) /\ Truthy(routerPathPrefix(entries[i][2]))
           found == FirstIndex({i \in 1..Len(entries) : holds(i)})
       IN IF found # 0 THEN routerPathPrefix(entries[found][2]) ELSE Undef

\* findPathPrefix that keeps the last prefix found instead of the first
findPathPrefix_last(exports, propertyPath) ==
  IF Len(propertyPath) = 0 THEN Str(<<>>)
  ELSE LET S == {i \in 1..Len(exports) : Truthy(exportPathPrefix(exports[i][2]))}
       IN IF S = {} THEN Str(<<>>)
          ELSE exportPathPrefix(exports[CHOOSE i \in S : \A j \in S : j <= i][2])

\* ContractParser.findPathPrefix
findPathPrefix(exports, propertyPath) ==
  IF Len(propertyPath) = 0 THEN Str(<<>>)
  ELSE LET holds(i) == Truthy(exportPathPrefix(exports[i][2]))
           found == FirstIndex({i \in 1..Len(exports) : holds(i)})
       IN IF found # 0 THEN exportPathPrefix(exports[found][2]) ELSE Str(<<>>)

\* What a module binds a local name to (ImportResolution).  exportName is
\* "" when the binding has none (a default or a namespace import).
ImportResolution(filePath, exportName, isDefaultImport) ==
  [filePath |-> filePath, exportName |-> exportName, isDefaultImport |-> isDefaultImport]

\* findBaseContract that searches every export whatever the import names
findBaseContract_anyExport(exports, propertyPath, importInfo) ==
  LET byPath == findContractByPath(exports, propertyPath)
      holds(i) == Truthy(findRouteInContract(exports[i][2], propertyPath))
      found == FirstIndex({i \in 1..Len(exports) : holds(i)})
  IN IF Truthy(byPath) THEN byPath
     ELSE IF found # 0 THEN findRouteInContract(exports[found][2], propertyPath)
     ELSE Null

\* The base contract of extractRouteInfo: lines 80-117.
findBaseContract(exports, propertyPath, importInfo) ==
  IF importInfo.exportName # ""
  THEN LET exportObj == Get(exports, importInfo.exportName)
       IN IF Truthy(exportObj) THEN findRouteInContract(exportObj, propertyPath) ELSE Null
  ELSE
    LET byPath == findContractByPath(exports, propertyPath)
        defaultExport == Get(exports, "default")
        inDefault == IF Truthy(defaultExport)
                     THEN findRouteInContract(defaultExport, propertyPath) ELSE Null
        contractExport == Get(exports, "contract")
        inContract == IF Truthy(contractExport)
                      THEN findRouteInContract(contractExport, propertyPath) ELSE Null
        holds(i) == Truthy(findRouteInContract(exports[i][2], propertyPath))
        found == FirstIndex({i \in 1..Len(exports) : holds(i)})
    IN IF Truthy(byPath) THEN byPath
       ELSE IF Truthy(inDefault) THEN inDefault
       ELSE IF Truthy(inContract) THEN inContract
       ELSE IF found # 0 THEN findRouteInContract(exports[found][2], propertyPath)
       ELSE Null

RouteInfo(method, path, summary, fullPath) ==
  [t |-> "routeInfo", method |-> method, path |-> path, summary |-> summary,
   fullPath |-> fullPath]

\* ContractParser.extractRouteInfo.  An exception raised inside is caught
\* and null is returned.
extractRouteInfo(exports, propertyPath, importInfo) ==
  LET baseContract == findBaseContract(exports, propertyPath, importInfo)
      routeDefinition == extractRouteDefinition(baseContract)
      pathPrefix == findPathPrefix(exports, propertyPath)
      fullPath == combinePaths(pathPrefix, Or(routeDefinition.path, Str(<<>>)))
  IN IF ~Truthy(baseContract) THEN Null
     ELSE IF routeDefinition = Throw \/ routeDefinition = Null THEN Null
     ELSE IF fullPath = Throw THEN Null
     ELSE RouteInfo(Or(routeDefinition.method, Str(sGET)),
                    Or(routeDefinition.path, Str(<<>>)),
                    routeDefinition.summary, fullPath)

(***************************************************************************)
(* Module resolution.  A path is the sequence of its segments, a segment a *)
(* string; the disk is the set of paths for which a stat succeeds.         *)
(***************************************************************************)
Path(segments) == [segments |-> segments]

RECURSIVE splitFrom(_, _, _)
\* the segments of a path string, cut at "/"
splitFrom(s, i, segment) ==
  IF i > Len(s) THEN <<segment>>
  ELSE IF s[i] = "/" THEN <<segment>> \o splitFrom(s, i + 1, <<>>)
  ELSE splitFrom(s, i + 1, Append(segment, s[i]))

split(s) == splitFrom(s, 1, <<>>)

\* path.dirname
dirname(file) == Path(SubSeq(file.segments, 1, Len(file.segments) - 1))

RECURSIVE resolveSegments(_, _, _)
\* path.resolve(basePath, importPath) for a relative importPath: "." and
\* empty segments are dropped, ".." removes the segment before it
resolveSegments(path, segments, i) ==
  IF i > Len(segments) THEN path
  ELSE IF segments[i] \in {<<>>, <<".">>} THEN resolveSegments(path, segments, i + 1)
  ELSE IF segments[i] = <<".", ".">>
    THEN resolveSegments(SubSeq(path, 1, Len(path) - 1), segments, i + 1)
  ELSE resolveSegments(Append(path, segments[i]), segments, i + 1)

pathResolve(basePath, importPath) ==
  Path(resolveSegments(basePath.segments, split(importPath), 1))

\* resolvedPath + ext
withExtension(resolvedPath, ext) ==
  LET segments == resolvedPath.segments
  IN IF Len(segments) = 0 THEN Path(<<ext>>)
     ELSE Path([segments EXCEPT ![Len(segments)] = @ \o ext])

\* path.join(resolvedPath, `index${ext}`)
indexFile(resolvedPath, ext) ==
  Path(Append(resolvedPath.segments, <<"i", "n", "d", "e", "x">> \o ext))

extensions ==
  << <<".", "t", "s">>, <<".", "t", "s", "x">>, <<".", "j", "s">>, <<".", "j", "s", "x">> >>

\* resolveImportPath that probes the index files before the extensions
resolveImportPath_indexFirst(importPath, importer, files) ==
  IF startsWith(importPath, ".")
  THEN LET resolvedPath == pathResolve(dirname(importer), importPath)
           byExt == FirstIndex({i \in 1..Len(extensions) :
                                  withExtension(resolvedPath, extensions[i]) \in files})
           byIndex == FirstIndex({i \in 1..Len(extensions) :
                                    indexFile(resolvedPath, extensions[i]) \in files})
       IN IF byIndex # 0 THEN indexFile(resolvedPath, extensions[byIndex])
          ELSE IF byExt # 0 THEN withExtension(resolvedPath, extensions[byExt])
          ELSE Null
  ELSE Null

\* ContractParser.resolveImportPath; a stat that fails, for whatever reason,
\* is a path outside files
resolveImportPath(importPath, importer, files) ==
  IF startsWith(importPath, ".")
  THEN LET resolvedPath == pathResolve(dirname(importer), importPath)
           byExt == FirstIndex({i \in 1..Len(extensions) :
                                  withExtension(resolvedPath, extensions[i]) \in files})
           byIndex == FirstIndex({i \in 1..Len(extensions) :
                                    indexFile(resolvedPath, extensions[i]) \in files})
       IN IF byExt # 0 THEN withExtension(resolvedPath, extensions[byExt])
          ELSE IF byIndex # 0 THEN indexFile(resolvedPath, extensions[byIndex])
          ELSE Null
  ELSE Null

(***************************************************************************)
(* Decorators of a handler file.  The modifiers of a method are decorators *)
(* and keywords; the modifier at index i stands on line i.                 *)
(***************************************************************************)
Decorator(expression) == [mk |-> "Decorator", expression |-> expression]
PublicKeyword == [mk |-> "PublicKeyword"]
PropertyAccessExpression(expression, name) ==
  [k |-> "PropertyAccessExpression", expression |-> expression, name |-> name]
ThisKeyword == [k |-> "ThisKeyword"]

sTsRestHandler == <<"T", "s", "R", "e", "s", "t", "H", "a", "n", "d", "l", "e", "r">>

\* AstParser.isTsRestHandlerDecorator
isTsRestHandlerDecorator(callExpression) ==
  IF callExpression.calleeKind = "Identifier"
  THEN callExpression.calleeName = sTsRestHandler
  ELSE IF callExpression.calleeKind = "PropertyAccessExpression"
  THEN callExpression.calleeName = sTsRestHandler
  ELSE FALSE

RECURSIVE walkPropertyAccess(_, _)
\* the while loop of extractContractReference
walkPropertyAccess(current, propertyPath) ==
  IF current.k = "PropertyAccessExpression"
  THEN walkPropertyAccess(current.expression, <<current.name>> \o propertyPath)
  ELSE [current |-> current, propertyPath |-> propertyPath]

RECURSIVE walkPropertyAccess_push(_, _)
\* the same loop, pushing each name at the end of the path
walkPropertyAccess_push(current, propertyPath) ==
  IF current.k = "PropertyAccessExpression"
  THEN walkPropertyAccess_push(current.expression, Append(propertyPath, current.name))
  ELSE [current |-> current, propertyPath |-> propertyPath]

extractContractReference_push(argument) ==
  LET end == walkPropertyAccess_push(argument, <<>>)
  IN IF end.current.k # "Identifier" THEN Null
     ELSE [base |-> end.current.id, propertyPath |-> end.propertyPath]

\* AstParser.extractContractReference
extractContractReference(argument) ==
  LET end == walkPropertyAccess(argument, <<>>)
  IN IF end.current.k # "Identifier" THEN Null
     ELSE [base |-> end.current.id, propertyPath |-> end.propertyPath]

\* HandlerDecoratorInfo; position and range follow from the line
HandlerDecoratorInfo(line, contractReference, contractPropertyPath) ==
  [line |-> line, contractReference |-> contractReference,
   contractPropertyPath |-> contractPropertyPath]

\* AstParser.analyzeDecorator
analyzeDecorator(decorator, line) ==
  LET expression == decorator.expression
  IN IF expression.k # "CallExpression" THEN Null
     ELSE IF ~isTsRestHandlerDecorator(expression) THEN Null
     ELSE IF Len(expression.args) # 1 THEN Null
     ELSE LET contractReference == extractContractReference(expression.args[1])
          IN IF contractReference = Null THEN Null
             ELSE HandlerDecoratorInfo(line, contractReference.base,
                                       contractReference.propertyPath)

\* one iteration of the loop of processMethodDecorators
processModifier(modifier, line, decorators) ==
  IF modifier.mk = "Decorator"
  THEN LET decoratorInfo == analyzeDecorator(modifier, line)
       IN IF decoratorInfo # Null THEN Append(decorators, decoratorInfo) ELSE decorators
  ELSE decorators

RECURSIVE processFrom(_, _, _)
processFrom(modifiers, i, decorators) ==
  IF i > Len(modifiers) THEN decorators
  ELSE processFrom(modifiers, i + 1, processModifier(modifiers[i], i, decorators))

\* AstParser.processMethodDecorators
processMethodDecorators(modifiers) == processFrom(modifiers, 1, <<>>)

(***************************************************************************)
(* The annotation provider.  Caches are maps, kept as functions; the disk   *)
(* maps a path to the text of the file and its modification time.          *)
(***************************************************************************)
MapGet(map, key) == IF key \in DOMAIN map THEN map[key] ELSE Undef
MapSet(map, key, value) ==
  [x \in DOMAIN map \cup {key} |-> IF x = key THEN value ELSE map[x]]
MapDelete(map, keys) == [x \in DOMAIN map \ keys |-> map[x]]
EmptyMap == [x \in {} |-> Undef]

\* ImportDeclaration: `import name from 'm'` (default), `import {e as name}
\* from 'm'` (named), `import * as name from 'm'` (namespace)
ImportDeclaration(clause, name, propertyName, moduleSpecifier) ==
  [clause |-> clause, name |-> name, propertyName |-> propertyName,
   moduleSpecifier |-> moduleSpecifier]

\* AstParser.processImportDeclaration
processImportDeclaration(node, imports) ==
  IF node.clause = "default"
  THEN Put(imports, node.name, ImportResolution(node.moduleSpecifier, "", TRUE))
  ELSE IF node.clause = "named"
  THEN Put(imports, node.name,
           ImportResolution(node.moduleSpecifier,
                            IF node.propertyName # "" THEN node.propertyName
                            ELSE node.name, FALSE))
  ELSE IF node.clause = "namespace"
  THEN Put(imports, node.name, ImportResolution(node.moduleSpecifier, "", FALSE))
  ELSE imports

RECURSIVE importsFrom(_, _, _)
importsFrom(declarations, i, imports) ==
  IF i > Len(declarations) THEN imports
  ELSE importsFrom(declarations, i + 1, processImportDeclaration(declarations[i], imports))

\* AstParser.extractImports
extractImports(declarations) == importsFrom(declarations, 1, <<>>)

\* AstParser.parseFile, on the text the editor holds
parseFile(text) ==
  [decorators |-> processMethodDecorators(text.modifiers),
   imports |-> extractImports(text.imports)]

ContractFile(filePath, exports, lastModified) ==
  [filePath |-> filePath, exports |-> exports, lastModified |-> lastModified]

\* parseContractFile stores the ContractFile it built and returns it
storeContract(filePath, cache, contractFile) ==
  [value |-> contractFile, contractCache |-> MapSet(cache, filePath, contractFile),
   read |-> TRUE]

\* ContractParser.parseContractFile: the ContractFile returned (Throw for
\* the ExtensionError raised when the file cannot be read), the contract
\* cache it leaves, and whether it went on to read the file
parseContractFile(filePath, cache, files, time) ==
  LET cachedContract == MapGet(cache, filePath)
      statOk == filePath \in DOMAIN files
  IN IF cachedContract # Undef /\ statOk /\ files[filePath].mtime <= cachedContract.lastModified
     THEN [value |-> cachedContract, contractCache |-> cache, read |-> FALSE]
     ELSE IF ~statOk THEN [value |-> Throw, contractCache |-> cache, read |-> TRUE]
     ELSE storeContract(filePath, cache,
            ContractFile(filePath, extractExports(files[filePath].text), time))

CACHE_TTL == 2
DEBOUNCE_DELAY == 1

cacheKey(currentFilePath, decorator) ==
  <<currentFilePath, decorator.line, decorator.contractReference,
    decorator.contractPropertyPath>>

CacheEntry(routeInfo, timestamp) == [routeInfo |-> routeInfo, timestamp |-> timestamp]

\* resolveRouteInfo from the parsed contract on: a parse that failed is none
extractFrom(parsed, decorator, importInfo) ==
  IF parsed.value = Throw THEN [value |-> Null, contractCache |-> parsed.contractCache]
  ELSE [value |-> extractRouteInfo(parsed.value.exports,
                                   decorator.contractPropertyPath, importInfo),
        contractCache |-> parsed.contractCache]

\* The part of resolveRouteInfo after the route cache: import lookup, module
\* resolution, contract parse, route extraction.  Every failure is none.
resolveFresh(decorator, imports, currentFilePath, cache, files, time) ==
  LET importInfo == Get(imports, decorator.contractReference)
      contractPath == IF importInfo = Undef THEN Null
                      ELSE resolveImportPath(importInfo.filePath, currentFilePath,
                                             DOMAIN files)
  IN IF contractPath = Null THEN [value |-> Null, contractCache |-> cache]
     ELSE extractFrom(parseContractFile(contractPath, cache, files, time),
                      decorator, importInfo)

\* resolveRouteInfo caches the RouteInfo it found and returns it
storeRoute(key, fresh, routes, time) ==
  [value |-> fresh.value,
   routeCache |-> IF fresh.value # Null
                  THEN MapSet(routes, key, CacheEntry(fresh.value, time))
                  ELSE routes,
   contractCache |-> fresh.contractCache, hit |-> FALSE]

\* RouteAnnotationProvider.resolveRouteInfo: the value returned, the two
\* caches it leaves, and whether the route cache answered
resolveRouteInfo(decorator, imports, currentFilePath, routes, cache, files, time) ==
  LET key == cacheKey(currentFilePath, decorator)
      cached == MapGet(routes, key)
  IN IF cached # Undef /\ time - cached.timestamp < CACHE_TTL
     THEN [value |-> cached.routeInfo, routeCache |-> routes,
           contractCache |-> cache, hit |-> TRUE]
     ELSE storeRoute(key, resolveFresh(decorator, imports, currentFilePath, cache,
                                       files, time),
                     routes, time)

annotationPrefix == <<" ", "/", "/", " ">>

RECURSIVE join(_, _)
\* parts.join(' ')
join(parts, i) ==
  IF i > Len(parts) THEN <<>>
  ELSE IF i = Len(parts) THEN parts[i]
  ELSE parts[i] \o <<" ">> \o join(parts, i + 1)

\* String(value), as parts.join(' ') and a template literal apply it; the
\* numbers of the model are single digits
toText(value) ==
  CASE value.t = "str" -> value.s
    [] value.t = "num" -> << <<"0", "1", "2", "3", "4", "5", "6", "7", "8", "9">>[value.n + 1] >>
    [] value.t = "bool" -> IF value.b THEN <<"t", "r", "u", "e">>
                           ELSE <<"f", "a", "l", "s", "e">>
    [] OTHER -> <<"[", "o", "b", "j", "e", "c", "t", " ", "O", "b", "j", "e", "c", "t", "]">>

\* RouteAnnotationProvider.formatAnnotationText, with the display settings
\* at their defaults (method, path and summary shown, prefix ' // ').
\* method.toUpperCase() on a truthy method that is no string is a TypeError.
formatAnnotationText(routeInfo) ==
  LET method == IF Truthy(routeInfo.method)
                THEN << toUpperCase(routeInfo.method.s) >> ELSE <<>>
      fullPath == IF Truthy(routeInfo.fullPath) THEN << toText(routeInfo.fullPath) >> ELSE <<>>
      summary == IF Truthy(routeInfo.summary)
                 THEN << <<"-", " ">> \o toText(routeInfo.summary) >> ELSE <<>>
      parts == method \o fullPath \o summary
  IN IF Truthy(routeInfo.method) /\ ~IsStr(routeInfo.method) THEN Throw
     ELSE IF Len(parts) = 0 THEN Str(<<>>)
     ELSE Str(annotationPrefix \o join(parts, 1))

RECURSIVE decorationsFrom(_, _, _, _)
\* the loop of createDecorations, as far as no formatAnnotationText raises
decorationsFrom(decorators, annotationResults, i, options) ==
  IF i > Len(decorators) THEN options
  ELSE decorationsFrom(decorators, annotationResults, i + 1,
         IF annotationResults[i] # Null
            /\ Truthy(formatAnnotationText(annotationResults[i]))
         THEN Append(options,
                     [line |-> decorators[i].line,
                      contentText |-> formatAnnotationText(annotationResults[i])])
         ELSE options)

\* RouteAnnotationProvider.createDecorations: the decoration options, or
\* Throw
createDecorations(decorators, annotationResults) ==
  LET options == decorationsFrom(decorators, annotationResults, 1, <<>>)
  IN IF \E i \in 1..Len(decorators) :
          /\ annotationResults[i] # Null
          /\ formatAnnotationText(annotationResults[i]) = Throw
     THEN Throw
     ELSE [t |-> "options", options |-> options]

\* clearAnnotations that sets nothing
clearAnnotations_keep(documentKey, types, visible, shown) == shown

\* RouteAnnotationProvider.clearAnnotations: the decorations the document
\* shows afterwards
clearAnnotations(documentKey, types, visible, shown) ==
  IF documentKey \in types /\ documentKey \in visible THEN <<>> ELSE shown

\* RouteAnnotationProvider.invalidateCache, on the route cache
invalidateRoutes(routes, filePath) ==
  MapDelete(routes, {key \in DOMAIN routes : key[1] = filePath})

(***************************************************************************)
(* State.                                                                  *)
(*   cp*: one call of combinePaths.                                        *)
(*   ct*: one contract file, read statement by statement into its export   *)
(*        table, and one call of extractRouteInfo on the table.            *)
(*   rs*: one call of resolveImportPath against a files.                    *)
(*   dc*: the modifiers of a method, analysed one by one.                  *)
(*   the rest: the annotation provider and the CodeLens provider at work   *)
(*   on one handler document that imports one contract file.               *)
(*     now                    Date.now()                                   *)
(*     configEnabled          config.enabled                               *)
(*     document               the text the editor holds for the handler    *)
(*     disk                   files on disk: text and modification time    *)
(*     contractCache          the provider's ContractParser.contractCache  *)
(*     routeCache             state.routeCache                             *)
(*     decorationTypes        keys of state.decorationTypes                *)
(*     visibleTextEditors     documents shown in an editor                 *)
(*     decorations            what the handler's editor shows              *)
(*     updateDebounceTimeout  the pending debounce timer, or Null          *)
(*     run                    the updateAnnotations call in progress       *)
(*     lensCache, lens        the CodeLens provider's contract cache and   *)
(*                            its last answer                              *)
(*     earlier                an updateAnnotations call still in progress  *)
(*                            when the call in `run` was issued            *)
(*     parsed                 the outcome of the last direct call of       *)
(*                            parseContractFile                            *)
(*     edited                 for each TypeScript document, when it was    *)
(*                            last changed and whether a change still      *)
(*                            waits for its updateAnnotations call         *)
(***************************************************************************)
VARIABLES cpPrefix, cpRoute, cpOut, cpPc,
          ctFile, ctExports, ctPath, ctImport, ctResult, ctPc,
          rsImportPath, rsDisk, rsResult, rsPc,
          dcModifiers, dcIndex, dcDecorators,
          now, configEnabled, document, disk, contractCache, routeCache,
          decorationTypes, visibleTextEditors, decorations,
          updateDebounceTimeout, run, lensCache, lens, earlier, parsed,
          edited

cpVars == <<cpPrefix, cpRoute, cpOut, cpPc>>
ctVars == <<ctFile, ctExports, ctPath, ctImport, ctResult, ctPc>>
rsVars == <<rsImportPath, rsDisk, rsResult, rsPc>>
dcVars == <<dcModifiers, dcIndex, dcDecorators>>
pvVars == <<now, configEnabled, document, disk, contractCache, routeCache,
            decorationTypes, visibleTextEditors, decorations,
            updateDebounceTimeout, run, lensCache, lens, earlier, parsed, edited>>
vars == <<cpVars, ctVars, rsVars, dcVars, pvVars>>

(***************************************************************************)
(* Path composition on its own: the prefix and the route path are drawn    *)
(* from the strings over PathChars up to MaxPathLen, and the strings of    *)
(* the documented example.                                                 *)
(***************************************************************************)
PathChars == {"/", "a"}

StringsUpTo(chars, n) == UNION {[1..k -> chars] : k \in 0..n}

sPosts == <<"/", "p", "o", "s", "t", "s">>
sPostsSlash == sPosts \o <<"/">>
sComments == <<"/", "c", "o", "m", "m", "e", "n", "t", "s">>
sPostsComments == sPosts \o sComments

PathInputs == StringsUpTo(PathChars, MaxPathLen) \cup {sPosts, sPostsSlash, sComments}

cpInit ==
  /\ cpPrefix \in PathInputs
  /\ cpRoute \in PathInputs
  /\ cpOut = Undef
  /\ cpPc = "start"

cpIdle ==
  /\ cpPrefix = <<>>
  /\ cpRoute = <<>>
  /\ cpOut = Undef
  /\ cpPc = "idle"

CombineStep ==
  /\ cpPc = "start"
  /\ cpOut' = combinePaths(Str(cpPrefix), Str(cpRoute))
  /\ cpPc' = "done"
  /\ UNCHANGED <<cpPrefix, cpRoute, ctVars, rsVars, dcVars, pvVars>>

(***************************************************************************)
(* Contract files.  A file is a sequence of at most MaxStatements          *)
(* statements.  Every statement shape may open a file; the statements that *)
(* follow are sibling declarations and export assignments.                 *)
(***************************************************************************)
sPOST == <<"P", "O", "S", "T">>
sSummary == <<"C", "r", "e", "a", "t", "e", " ", "a", " ", "n", "e", "w", " ", "p", "o", "s", "t">>
sGetAllPosts == <<"G", "e", "t", " ", "a", "l", "l", " ", "p", "o", "s", "t", "s">>
sObject == <<"o", "b", "j", "e", "c", "t">>

OL(props) == ObjectLiteralExpression(props)
SL(text) == StringLiteral(text)

\* The contract of the README ("Basic Route Contract"), with summary S.
ReadmeRouter(S) ==
  Call(sRouter,
       << OL(<< PA("createPost",
                   OL(<< PA("method", SL(sPOST)), PA("path", SL(<<"/">>)),
                         PA("summary", SL(S)),
                         PA("body", Call(sObject, << OL(<<>>) >>)),
                         PA("responses",
                            OL(<< PropertyAssignment("NumericLiteral", "201",
                                                     Call(sObject, << OL(<<>>) >>)) >>)) >>)),
                PA("getAllPosts",
                   OL(<< PA("method", SL(sGET)), PA("path", SL(<<"/">>)),
                         PA("summary", SL(sGetAllPosts)) >>)) >>),
          OL(<< PA("pathPrefix", SL(sPosts)) >>) >>)

Summaries == {sSummary, <<"s">>}

ConstStatement(isExported, name, init) ==
  VariableStatement(isExported, << VariableDeclaration("Identifier", name, TRUE, init) >>)

ReadmeFile(S) ==
  << ConstStatement(FALSE, "postsContract", ReadmeRouter(S)),
     ExportAssignment(Identifier("postsContract")) >>

\* Sibling exports: each holds a route under the key getAll whose path
\* names the export.
SiblingNames == {"a", "b", "contract"}
SiblingPath(name) == IF name = "a" THEN <<"/", "a">>
                     ELSE IF name = "b" THEN <<"/", "b">> ELSE <<"/", "c">>
SiblingRoute(name) ==
  OL(<< PA("method", SL(sGET)), PA("path", SL(SiblingPath(name))) >>)
SiblingInits(name) ==
  { OL(<< PA("getAll", SiblingRoute(name)) >>),
    Call(sRouter, << OL(<< PA("getAll", SiblingRoute(name)) >>),
                     OL(<< PA("pathPrefix", SL(sPosts)) >>) >>) }
SiblingStatements ==
  UNION { { ConstStatement(e, n, i) : e \in BOOLEAN, i \in SiblingInits(n) } :
          n \in SiblingNames }

\* Other shapes of an exported value.
ShapeInits ==
  { OL(<< PA("getAll", OL(<< PA("method", SL(<<"p", "o", "s", "t">>)),
                             PA("path", SL(<<"/", "a">>)) >>)) >>),
    OL(<< PA("getAll", OL(<< PA("path", SL(<<"a">>)) >>)) >>),
    OL(<< PA("getAll", OL(<< PA("method", SL(sGET)) >>)) >>),
    Call(sRouter, << OL(<< PA("getAll", Call(<<"g", "e", "t">>,
                                               << SL(<<"/", "b">>),
                                                  OL(<< PA("summary", SL(<<"s">>)) >>) >>)) >>),
                     OL(<< PA("pathPrefix", SL(<<"v", "1", "/">>)) >>) >>),
    OL(<< PA("group", OL(<< PA("getAll", OL(<< PA("method", SL(<<"G", "e", "t">>)),
                                               PA("path", SL(<<"/">>)) >>)) >>)) >>),
    Call(<<"p", "o", "s", "t">>, << SL(<<"/", "c">>) >>),
    Call(sRouter, << OL(<< PA("getAll", OL(<< PA("summary", SL(<<"s">>)) >>)) >>) >>),
    OL(<< PA("getAll", OL(<< PA("route", OL(<< PA("method", SL(<<"p", "u", "t">>)) >>)) >>)) >>),
    OL(<< MethodDeclaration("Identifier", "getAll") >>),
    Call(sRouter, << OL(<< PA("getAll", SiblingRoute("a")) >>),
                     OL(<< PA("pathPrefix", NumericLiteral(5)) >>) >>),
    OL(<< PA("getAll", Call(<<"D", "e", "l", "e", "t", "e">>, <<>>)) >>),
    OL(<< PA("posts", Call(sRouter, << OL(<< PA("getAll", SiblingRoute("a")) >>),
                                       OL(<< PA("pathPrefix", SL(sPosts)) >>) >>)) >>),
    OL(<< PA("__router", TrueKeyword),
          PA("__options", OL(<< PA("pathPrefix", SL(<<"/", "x">>)) >>)),
          PA("getAll", SiblingRoute("a")) >>),
    Call(<<"g", "e", "t">>, << SL(<<"/", "b">>),
                             OL(<< PA("method", SL(<<"p", "o", "s", "t">>)),
                                   PA("summary", SL(<<"s">>)) >>) >>),
    Call(sObject, << OL(<<>>) >>),
    CallExpression("Identifier", <<"g", "e", "t">>, << SL(<<"/", "b">>) >>),
    OL(<< PA("getAll", Identifier("handler")),
          PA("group", OL(<< PA("getAll", SiblingRoute("a")) >>)) >>),
    SL(<<"t">>),
    NumericLiteral(0) }

ShapeStatements == { ConstStatement(e, "a", i) : e \in BOOLEAN, i \in ShapeInits }

ReadmeStatements == { ConstStatement(FALSE, "postsContract", ReadmeRouter(S)) : S \in Summaries }

\* export const a = {...}, b = {...};  and the same without `export`
PairStatements ==
  { VariableStatement(e, << VariableDeclaration("Identifier", "a", TRUE,
                                                OL(<< PA("getAll", SiblingRoute("a")) >>)),
                            VariableDeclaration("Identifier", "b", TRUE,
                                                OL(<< PA("getAll", SiblingRoute("b")) >>)) >>) :
      e \in BOOLEAN }

ExportAssignments ==
  { ExportAssignment(Identifier("postsContract")),
    ExportAssignment(NumericLiteral(0)),
    ExportAssignment(Call(sRouter, << OL(<< PA("getAll", SiblingRoute("contract")) >>),
                                     OL(<< PA("pathPrefix", SL(<<"/", "v", "1">>)) >>) >>)) }

\* The variable statements that may stand at place i of a file.
VariableStatementsAt(i) ==
  IF i = 1 THEN SiblingStatements \cup ShapeStatements \cup ReadmeStatements
                \cup PairStatements
  ELSE SiblingStatements \cup PairStatements

PropertyPaths == {<<>>, <<"getAll">>, <<"createPost">>, <<"a", "getAll">>}

\* import c from './x';  import * as c from './x';  import { a } from './x'
ImportInfos ==
  { ImportResolution("./x", "", TRUE), ImportResolution("./x", "", FALSE),
    ImportResolution("./x", "a", FALSE), ImportResolution("./x", "b", FALSE) }

ctInit ==
  /\ ctFile = <<>>
  /\ ctExports = <<>>
  /\ ctPath = <<>>
  /\ ctImport = Undef
  /\ ctResult = Undef
  /\ ctPc = "visit"

ctIdle ==
  /\ ctFile = <<>>
  /\ ctExports = <<>>
  /\ ctPath = <<>>
  /\ ctImport = Undef
  /\ ctResult = Undef
  /\ ctPc = "idle"

\* extractExports reaches a variable statement
VisitVariableStatement ==
  /\ ctPc = "visit"
  /\ Len(ctFile) < MaxStatements
  /\ \E node \in VariableStatementsAt(Len(ctFile) + 1) :
       /\ ctFile' = Append(ctFile, node)
       /\ ctExports' = visitStatement(node, ctExports)
  /\ UNCHANGED <<ctPath, ctImport, ctResult, ctPc, cpVars, rsVars, dcVars, pvVars>>

\* extractExports reaches an export assignment
VisitExportAssignment ==
  /\ ctPc = "visit"
  /\ Len(ctFile) < MaxStatements
  /\ \E node \in ExportAssignments :
       /\ ctFile' = Append(ctFile, node)
       /\ ctExports' = visitStatement(node, ctExports)
  /\ UNCHANGED <<ctPath, ctImport, ctResult, ctPc, cpVars, rsVars, dcVars, pvVars>>

\* the file ends; a property path is resolved against its export table
ResolveRoute ==
  /\ ctPc = "visit"
  /\ \E propertyPath \in PropertyPaths, importInfo \in ImportInfos :
       /\ ctPath' = propertyPath
       /\ ctImport' = importInfo
       /\ ctResult' = extractRouteInfo(ctExports, propertyPath, importInfo)
  /\ ctPc' = "done"
  /\ UNCHANGED <<ctFile, ctExports, cpVars, rsVars, dcVars, pvVars>>

(***************************************************************************)
(* Module resolution on its own: a specifier, and a disk holding any       *)
(* subset of the candidate files of every base the specifiers name.        *)
(***************************************************************************)
fromFile == Path(<< <<"s">>, <<"h", ".", "t", "s">> >>)

Specifiers ==
  { <<".", "/", "c">>, <<".", ".", "/", "c">>, <<".", "/", "d", "/", "c">>,
    <<".", "/", "c", "/">>, <<"c">>, <<"@", "/", "c">>, <<"/", "s", "/", "c">> }

\* the directories a candidate may lie under
Bases == { Path(<< <<"s">>, <<"c">> >>), Path(<< <<"c">> >>),
           Path(<< <<"s">>, <<"d">>, <<"c">> >>), Path(<< <<"@">>, <<"c">> >>) }

Tails == 1..(2 * Len(extensions))

tailPath(base, n) ==
  IF n <= Len(extensions) THEN withExtension(base, extensions[n])
  ELSE indexFile(base, extensions[n - Len(extensions)])

DiskOf(tails) == { tailPath(base, n) : base \in Bases, n \in tails }

rsInit ==
  /\ rsImportPath \in Specifiers
  /\ rsDisk \in { DiskOf(tails) : tails \in SUBSET Tails }
  /\ rsResult = Undef
  /\ rsPc = "start"

rsIdle ==
  /\ rsImportPath = <<>>
  /\ rsDisk = {}
  /\ rsResult = Undef
  /\ rsPc = "idle"

ResolveImport ==
  /\ rsPc = "start"
  /\ rsResult' = resolveImportPath(rsImportPath, fromFile, rsDisk)
  /\ rsPc' = "done"
  /\ UNCHANGED <<rsImportPath, rsDisk, cpVars, ctVars, dcVars, pvVars>>

(***************************************************************************)
(* The decorator extractor on its own: the modifiers of a method, at most  *)
(* MaxModifiers of them.                                                   *)
(***************************************************************************)
TsRestHandlerCall(args) == CallExpression("Identifier", sTsRestHandler, args)
cGetAll == PropertyAccessExpression(Identifier("c"), "getAll")
cPostsCreatePost ==
  PropertyAccessExpression(PropertyAccessExpression(Identifier("c"), "posts"), "createPost")

Modifiers ==
  { PublicKeyword,
    Decorator(Identifier("TsRestHandler")),
    Decorator(TsRestHandlerCall(<<Identifier("c")>>)),
    Decorator(TsRestHandlerCall(<<cGetAll>>)),
    Decorator(TsRestHandlerCall(<<cPostsCreatePost>>)),
    Decorator(CallExpression("PropertyAccessExpression", sTsRestHandler, <<cGetAll>>)),
    Decorator(CallExpression("Identifier", <<"G", "e", "t">>, <<cGetAll>>)),
    Decorator(CallExpression("CallExpression", sTsRestHandler, <<cGetAll>>)),
    Decorator(TsRestHandlerCall(<<>>)),
    Decorator(TsRestHandlerCall(<<cGetAll, Identifier("c")>>)),
    Decorator(TsRestHandlerCall(<<PropertyAccessExpression(
                Call(<<"g", "e", "t">>, <<>>), "getAll")>>)),
    Decorator(TsRestHandlerCall(<<PropertyAccessExpression(ThisKeyword, "getAll")>>)),
    Decorator(TsRestHandlerCall(<<StringLiteral(<<"c">>)>>)) }

dcInit ==
  /\ dcModifiers \in UNION { [1..n -> Modifiers] : n \in 0..MaxModifiers }
  /\ dcIndex = 0
  /\ dcDecorators = <<>>

dcIdle ==
  /\ dcModifiers = <<>>
  /\ dcIndex = 0
  /\ dcDecorators = <<>>

\* the loop of processMethodDecorators reaches the next modifier
AnalyzeModifier ==
  /\ dcIndex < Len(dcModifiers)
  /\ dcIndex' = dcIndex + 1
  /\ dcDecorators' = processModifier(dcModifiers[dcIndex + 1], dcIndex + 1, dcDecorators)
  /\ UNCHANGED <<dcModifiers, cpVars, ctVars, rsVars, pvVars>>

(***************************************************************************)
(* The providers at work.  The handler document imports the name c and     *)
(* carries at most one decorator (two under SpecIsolation); the contract   *)
(* file is s/c.ts.  Time runs from 0 to MaxTime, with CACHE_TTL and        *)
(* DEBOUNCE_DELAY scaled to it.  updateAnnotations calls are taken one at  *)
(* a time, except under SpecConcurrent, where a save may issue a second    *)
(* call while one is in progress.  The two providers share no state: each  *)
(* has its own ContractParser.                                             *)
(***************************************************************************)
contractFilePath == Path(<< <<"s">>, <<"c", ".", "t", "s">> >>)

ImportC(moduleSpecifier) == << ImportDeclaration("default", "c", "", moduleSpecifier) >>
DocumentText(imports, modifiers) == [imports |-> imports, modifiers |-> modifiers]

DocumentTexts ==
  { DocumentText(ImportC(<<".", "/", "c">>), << Decorator(TsRestHandlerCall(<<cGetAll>>)) >>),
    DocumentText(ImportC(<<"@", "/", "c">>), << Decorator(TsRestHandlerCall(<<cGetAll>>)) >>),
    DocumentText(ImportC(<<".", "/", "c">>), <<>>),
    DocumentText(ImportC(<<".", "/", "c">>),
                 << Decorator(CallExpression("Identifier", <<"G", "e", "t">>, <<cGetAll>>)) >>) }

\* texts of the contract file: `const c = { getAll: {...} }` with the path
\* "/a" or "/b"
ContractTexts ==
  { << ConstStatement(FALSE, "c", OL(<< PA("getAll", SiblingRoute(n)) >>)) >> :
      n \in {"a", "b"} }

DiskFile(text, mtime) == [text |-> text, mtime |-> mtime]

noMetrics == [cacheHits |-> 0, cacheMisses |-> 0]
\* two more TypeScript documents, open beside the handler document
otherFile == Path(<< <<"s">>, <<"o", ".", "t", "s">> >>)
thirdFile == Path(<< <<"s">>, <<"t", ".", "t", "s">> >>)
TsDocuments == {fromFile, otherFile, thirdFile}
NoEdits == [d \in TsDocuments |-> [at |-> 0, stale |-> FALSE]]

IdleRun ==
  [pc |-> "idle", decorators |-> <<>>, imports |-> <<>>, results |-> <<>>,
   metrics |-> noMetrics]
IdleLens == [pc |-> "idle", decorators |-> <<>>, codeLenses |-> <<>>]

pvInit ==
  /\ now = 0
  /\ configEnabled = TRUE
  /\ document \in DocumentTexts
  /\ disk \in { MapSet(EmptyMap, contractFilePath, DiskFile(text, 0)) :
                  text \in ContractTexts } \cup { EmptyMap }
  /\ contractCache = EmptyMap
  /\ routeCache = EmptyMap
  /\ decorationTypes = {}
  /\ visibleTextEditors = {}
  /\ decorations = <<>>
  /\ updateDebounceTimeout = Null
  /\ run = IdleRun
  /\ lensCache = EmptyMap
  /\ lens = IdleLens
  /\ earlier = IdleRun
  /\ parsed = Null
  /\ edited = NoEdits

pvIdle ==
  /\ now = 0
  /\ configEnabled = TRUE
  /\ document = DocumentText(<<>>, <<>>)
  /\ disk = EmptyMap
  /\ contractCache = EmptyMap
  /\ routeCache = EmptyMap
  /\ decorationTypes = {}
  /\ visibleTextEditors = {}
  /\ decorations = <<>>
  /\ updateDebounceTimeout = Null
  /\ run = IdleRun
  /\ lensCache = EmptyMap
  /\ lens = IdleLens
  /\ earlier = IdleRun
  /\ parsed = Null
  /\ edited = NoEdits

otherVars == <<cpVars, ctVars, rsVars, dcVars, edited>>

\* updateAnnotations from its call to the end of the parse: with no
\* decorator it clears and returns, otherwise the decorators wait to be
\* resolved
beginRun(text) ==
  LET parseResult == parseFile(text)
  IN [pc |-> IF Len(parseResult.decorators) = 0 THEN "done" ELSE "resolving",
      decorators |-> parseResult.decorators, imports |-> parseResult.imports,
      results |-> <<>>, metrics |-> noMetrics]

\* a call of updateAnnotations(document) while config.enabled holds
StartUpdate(visible) ==
  /\ run.pc # "resolving"
  /\ run' = beginRun(document)
  /\ decorations' = IF run'.pc = "done"
                    THEN clearAnnotations(fromFile, decorationTypes, visible, decorations)
                    ELSE decorations

Tick ==
  /\ now < MaxTime
  /\ now' = now + 1
  /\ UNCHANGED <<configEnabled, document, disk, contractCache, routeCache,
                 decorationTypes, visibleTextEditors, decorations,
                 updateDebounceTimeout, run, lensCache, lens, earlier, parsed, otherVars>>

\* the user edits the handler document
onDocumentChange ==
  /\ \E text \in DocumentTexts \ {document} : document' = text
  /\ updateDebounceTimeout' = IF configEnabled THEN [deadline |-> now + DEBOUNCE_DELAY]
                              ELSE updateDebounceTimeout
  /\ UNCHANGED <<now, configEnabled, disk, contractCache, routeCache, decorationTypes,
                 visibleTextEditors, decorations, run, lensCache, lens, earlier, parsed, otherVars>>

\* the debounce timer fires
DebounceFire ==
  /\ updateDebounceTimeout # Null
  /\ now >= updateDebounceTimeout.deadline
  /\ updateDebounceTimeout' = Null
  /\ IF configEnabled THEN StartUpdate(visibleTextEditors)
     ELSE UNCHANGED <<run, decorations>>
  /\ UNCHANGED <<now, configEnabled, document, disk, contractCache, routeCache,
                 decorationTypes, visibleTextEditors, lensCache, lens, earlier, parsed, otherVars>>

\* the handler document is saved
onDocumentSave ==
  /\ configEnabled
  /\ contractCache' = MapDelete(contractCache, {fromFile})
  /\ routeCache' = invalidateRoutes(routeCache, fromFile)
  /\ StartUpdate(visibleTextEditors)
  /\ UNCHANGED <<now, configEnabled, document, disk, decorationTypes,
                 visibleTextEditors, updateDebounceTimeout, lensCache, lens, earlier, parsed, otherVars>>

\* the contract document is saved with a text: the file is written, then the
\* save event is handled; the contract itself carries no decorator
onContractSave ==
  /\ \E text \in ContractTexts :
       disk' = MapSet(disk, contractFilePath, DiskFile(text, now))
  /\ contractCache' = IF configEnabled THEN MapDelete(contractCache, {contractFilePath})
                      ELSE contractCache
  /\ routeCache' = IF configEnabled THEN invalidateRoutes(routeCache, contractFilePath)
                   ELSE routeCache
  /\ UNCHANGED <<now, configEnabled, document, decorationTypes, visibleTextEditors,
                 decorations, updateDebounceTimeout, run, lensCache, lens, earlier, parsed, otherVars>>

\* the contract file is written from outside the editor
ExternalWrite ==
  /\ \E text \in ContractTexts :
       disk' = MapSet(disk, contractFilePath, DiskFile(text, now))
  /\ UNCHANGED <<now, configEnabled, document, contractCache, routeCache,
                 decorationTypes, visibleTextEditors, decorations,
                 updateDebounceTimeout, run, lensCache, lens, earlier, parsed, otherVars>>

\* the contract file is deleted
onFilesDeleted ==
  /\ contractFilePath \in DOMAIN disk
  /\ disk' = MapDelete(disk, {contractFilePath})
  /\ contractCache' = MapDelete(contractCache, {contractFilePath})
  /\ routeCache' = invalidateRoutes(routeCache, contractFilePath)
  /\ UNCHANGED <<now, configEnabled, document, decorationTypes, visibleTextEditors,
                 decorations, updateDebounceTimeout, run, lensCache, lens, earlier, parsed, otherVars>>

\* the handler document comes to the front
onActiveEditorChange ==
  /\ fromFile \notin visibleTextEditors
  /\ visibleTextEditors' = visibleTextEditors \cup {fromFile}
  /\ IF configEnabled THEN StartUpdate(visibleTextEditors')
     ELSE UNCHANGED <<run, decorations>>
  /\ UNCHANGED <<now, configEnabled, document, disk, contractCache, routeCache,
                 decorationTypes, updateDebounceTimeout, lensCache, lens, earlier, parsed, otherVars>>

\* the editor of the handler document is closed or covered; its decorations
\* go with it
EditorHidden ==
  /\ fromFile \in visibleTextEditors
  /\ visibleTextEditors' = visibleTextEditors \ {fromFile}
  /\ decorations' = <<>>
  /\ UNCHANGED <<now, configEnabled, document, disk, contractCache, routeCache,
                 decorationTypes, updateDebounceTimeout, run, lensCache, lens, earlier, parsed, otherVars>>

\* onConfigurationChange, the setting `enabled` flipped
onConfigurationChange ==
  /\ configEnabled' = ~configEnabled
  /\ IF configEnabled'
     THEN IF fromFile \in visibleTextEditors THEN StartUpdate(visibleTextEditors)
          ELSE UNCHANGED <<run, decorations>>
     ELSE /\ decorations' = IF fromFile \in decorationTypes /\ fromFile \in visibleTextEditors
                            THEN <<>> ELSE decorations
          /\ UNCHANGED run
  /\ UNCHANGED <<now, document, disk, contractCache, routeCache, decorationTypes,
                 visibleTextEditors, updateDebounceTimeout, lensCache, lens, earlier, parsed, otherVars>>

\* onConfigurationChange, another setting changed: refreshAllAnnotations
refreshAllAnnotations ==
  /\ configEnabled
  /\ contractCache' = EmptyMap
  /\ routeCache' = EmptyMap
  /\ IF fromFile \in visibleTextEditors THEN StartUpdate(visibleTextEditors)
     ELSE UNCHANGED <<run, decorations>>
  /\ UNCHANGED <<now, configEnabled, document, disk, decorationTypes,
                 visibleTextEditors, updateDebounceTimeout, lensCache, lens, earlier, parsed, otherVars>>

\* the caller takes the answer of resolveRouteInfo
Resolved(resolved) ==
  /\ run' = [run EXCEPT
               !.results = Append(@, resolved.value),
               !.metrics = IF resolved.hit
                           THEN [@ EXCEPT !.cacheHits = @ + 1]
                           ELSE [@ EXCEPT !.cacheMisses = @ + 1]]
  /\ routeCache' = resolved.routeCache
  /\ contractCache' = resolved.contractCache

\* updateAnnotations: the next decorator is resolved
ResolveDecorator ==
  /\ run.pc = "resolving"
  /\ Len(run.results) < Len(run.decorators)
  /\ Resolved(resolveRouteInfo(run.decorators[Len(run.results) + 1], run.imports,
                               fromFile, routeCache, contractCache, disk, now))
  /\ UNCHANGED <<now, configEnabled, document, disk, decorationTypes,
                 visibleTextEditors, decorations, updateDebounceTimeout, lensCache,
                 lens, earlier, parsed, otherVars>>

\* updateAnnotations: createDecorations and applyDecorations.  An exception
\* of createDecorations reaches the catch of updateAnnotations, which shows
\* an error and applies nothing.
ApplyDecorations ==
  /\ run.pc = "resolving"
  /\ Len(run.results) = Len(run.decorators)
  /\ IF createDecorations(run.decorators, run.results) = Throw
     THEN /\ run' = [run EXCEPT !.pc = "failed"]
          /\ UNCHANGED <<decorationTypes, decorations>>
     ELSE /\ run' = [run EXCEPT !.pc = "done"]
          /\ IF fromFile \in visibleTextEditors
             THEN /\ decorationTypes' = decorationTypes \cup {fromFile}
                  /\ decorations' = createDecorations(run.decorators, run.results).options
             ELSE UNCHANGED <<decorationTypes, decorations>>
  /\ UNCHANGED <<now, configEnabled, document, disk, contractCache, routeCache,
                 visibleTextEditors, updateDebounceTimeout, lensCache, lens, earlier, parsed, otherVars>>

\* The handler document is saved while an updateAnnotations call is in
\* progress: the handler does all it does otherwise, and the call already
\* in progress stays in progress.
onDocumentSaveDuringRun ==
  /\ configEnabled
  /\ run.pc = "resolving"
  /\ earlier.pc # "resolving"
  /\ contractCache' = MapDelete(contractCache, {fromFile})
  /\ routeCache' = invalidateRoutes(routeCache, fromFile)
  /\ earlier' = run
  /\ run' = beginRun(document)
  /\ decorations' = IF run'.pc = "done"
                    THEN clearAnnotations(fromFile, decorationTypes, visibleTextEditors,
                                          decorations)
                    ELSE decorations
  /\ UNCHANGED <<now, configEnabled, document, disk, decorationTypes,
                 visibleTextEditors, updateDebounceTimeout, lensCache, lens, parsed, otherVars>>

\* the earlier call takes the answer of resolveRouteInfo
ResolvedEarlier(resolved) ==
  /\ earlier' = [earlier EXCEPT
                   !.results = Append(@, resolved.value),
                   !.metrics = IF resolved.hit
                               THEN [@ EXCEPT !.cacheHits = @ + 1]
                               ELSE [@ EXCEPT !.cacheMisses = @ + 1]]
  /\ routeCache' = resolved.routeCache
  /\ contractCache' = resolved.contractCache

\* updateAnnotations, the earlier call: the next decorator is resolved
ResolveDecoratorEarlier ==
  /\ earlier.pc = "resolving"
  /\ Len(earlier.results) < Len(earlier.decorators)
  /\ ResolvedEarlier(resolveRouteInfo(earlier.decorators[Len(earlier.results) + 1],
                                      earlier.imports, fromFile, routeCache,
                                      contractCache, disk, now))
  /\ UNCHANGED <<now, configEnabled, document, disk, decorationTypes,
                 visibleTextEditors, decorations, updateDebounceTimeout, run,
                 lensCache, lens, parsed, otherVars>>

\* updateAnnotations, the earlier call: createDecorations and
\* applyDecorations.  Nothing in applyDecorations asks whether a later call
\* was issued.
ApplyDecorationsEarlier ==
  /\ earlier.pc = "resolving"
  /\ Len(earlier.results) = Len(earlier.decorators)
  /\ IF createDecorations(earlier.decorators, earlier.results) = Throw
     THEN /\ earlier' = [earlier EXCEPT !.pc = "failed"]
          /\ UNCHANGED <<decorationTypes, decorations>>
     ELSE /\ earlier' = [earlier EXCEPT !.pc = "done"]
          /\ IF fromFile \in visibleTextEditors
             THEN /\ decorationTypes' = decorationTypes \cup {fromFile}
                  /\ decorations' =
                       createDecorations(earlier.decorators, earlier.results).options
             ELSE UNCHANGED <<decorationTypes, decorations>>
  /\ UNCHANGED <<now, configEnabled, document, disk, contractCache, routeCache,
                 visibleTextEditors, updateDebounceTimeout, run, lensCache, lens,
                 parsed, otherVars>>

\* the caller of parseContractFile has its outcome
Parsed(outcome) ==
  /\ parsed' = [value |-> outcome.value, read |-> outcome.read]
  /\ contractCache' = outcome.contractCache

\* a call of contractParser.parseContractFile on the contract file
ParseContract ==
  /\ Parsed(parseContractFile(contractFilePath, contractCache, disk, now))
  /\ UNCHANGED <<now, configEnabled, document, disk, routeCache, decorationTypes,
                 visibleTextEditors, decorations, updateDebounceTimeout, run,
                 lensCache, lens, earlier, otherVars>>

\* the contract document is saved while no updateAnnotations call is in
\* progress
onContractSaveBetweenRuns ==
  /\ run.pc # "resolving"
  /\ onContractSave

RECURSIVE lensesFrom(_, _, _, _, _, _)
\* provideCodeLenses: a decorator with a RouteInfo gets its lenses
withLens(resolved, decorators, imports, i, files, lenses) ==
  lensesFrom(decorators, imports, i + 1, resolved.contractCache, files,
             IF resolved.value # Null
             THEN Append(lenses, [line |-> decorators[i].line,
                                  routeInfo |-> resolved.value])
             ELSE lenses)

\* the loop of provideCodeLenses: the routes that get lenses, and the cache
lensesFrom(decorators, imports, i, cache, files, lenses) ==
  IF i > Len(decorators) THEN [codeLenses |-> lenses, cache |-> cache]
  ELSE withLens(resolveFresh(decorators[i], imports, fromFile, cache, files, now),
                decorators, imports, i, files, lenses)

\* the answer of provideCodeLenses is returned
Answered(parseResult, answer) ==
  /\ lens' = [pc |-> "done", decorators |-> parseResult.decorators,
              codeLenses |-> answer.codeLenses]
  /\ lensCache' = answer.cache

\* TsRestCodeLensProvider.provideCodeLenses
provideCodeLenses ==
  /\ Answered(parseFile(document),
              lensesFrom(parseFile(document).decorators, parseFile(document).imports,
                         1, lensCache, disk, <<>>))
  /\ UNCHANGED <<now, configEnabled, document, disk, contractCache, routeCache,
                 decorationTypes, visibleTextEditors, decorations,
                 updateDebounceTimeout, run, earlier, parsed, otherVars>>

(***************************************************************************)
(* A handler document with two decorators, of which at most one refers to  *)
(* a route the contract defines well.  The others: a name no import binds  *)
(* (x), a module that does not resolve (d), a file that does not exist     *)
(* (e), a member that is no object (odd), a route whose method is a number *)
(* (bad).                                                                  *)
(***************************************************************************)
Ref(object, name) == PropertyAccessExpression(Identifier(object), name)
Handler(reference) == Decorator(TsRestHandlerCall(<<reference>>))

IsolationImports ==
  << ImportDeclaration("default", "c", "", <<".", "/", "c">>),
     ImportDeclaration("default", "d", "", <<"@", "/", "d">>),
     ImportDeclaration("default", "e", "", <<".", "/", "e">>) >>

MalformedReferences ==
  { Ref("x", "getAll"), Ref("d", "getAll"), Ref("e", "getAll"),
    Ref("c", "odd"), Ref("c", "bad") }

IsolationTexts ==
  { DocumentText(IsolationImports, << Handler(first), Handler(second) >>) :
      first \in {cGetAll}, second \in MalformedReferences }
  \cup
  { DocumentText(IsolationImports, << Handler(first), Handler(second) >>) :
      first \in MalformedReferences \cup {cGetAll}, second \in {cGetAll} }

\* const c = { getAll: {method: 'GET', path: '/a'}, odd: 7,
\*             bad: {method: 5, path: '/a'} }
IsolationContract ==
  << ConstStatement(FALSE, "c",
       OL(<< PA("getAll", SiblingRoute("a")),
             PA("odd", NumericLiteral(7)),
             PA("bad", OL(<< PA("method", NumericLiteral(5)),
                             PA("path", SL(SiblingPath("a"))) >>)) >>)) >>

isolationInit ==
  /\ now = 0
  /\ configEnabled = TRUE
  /\ document \in IsolationTexts
  /\ disk \in { MapSet(EmptyMap, contractFilePath, DiskFile(IsolationContract, 0)),
                EmptyMap }
  /\ contractCache = EmptyMap
  /\ routeCache = EmptyMap
  /\ decorationTypes = {}
  /\ visibleTextEditors = {}
  /\ decorations = <<>>
  /\ updateDebounceTimeout = Null
  /\ run = IdleRun
  /\ lensCache = EmptyMap
  /\ lens = IdleLens
  /\ earlier = IdleRun
  /\ parsed = Null
  /\ edited = NoEdits

(***************************************************************************)
(* The debounce timer with several TypeScript documents open.  The provider*)
(* keeps one timer for all documents; the callback of the timer holds the  *)
(* document of the change event that set it.                               *)
(***************************************************************************)
\* onDocumentChange for a change event of one of the documents; a timer is
\* only set while its deadline lies within the clock's range
onDocumentChangeOf ==
  /\ now + DEBOUNCE_DELAY <= MaxTime
  /\ \E d \in TsDocuments :
       /\ edited' = [edited EXCEPT ![d] = [at |-> now, stale |-> TRUE]]
       /\ updateDebounceTimeout' =
            IF configEnabled THEN [deadline |-> now + DEBOUNCE_DELAY, document |-> d]
            ELSE updateDebounceTimeout
  /\ UNCHANGED <<now, configEnabled, document, disk, contractCache, routeCache,
                 decorationTypes, visibleTextEditors, decorations, run, lensCache,
                 lens, earlier, parsed, cpVars, ctVars, rsVars, dcVars>>

\* the callback of the timer: updateAnnotations starts for the document the
\* timer was set for
DebounceFireOf ==
  /\ updateDebounceTimeout # Null
  /\ now >= updateDebounceTimeout.deadline
  /\ updateDebounceTimeout' = Null
  /\ edited' = IF configEnabled
               THEN [edited EXCEPT ![updateDebounceTimeout.document].stale = FALSE]
               ELSE edited
  /\ UNCHANGED <<now, configEnabled, document, disk, contractCache, routeCache,
                 decorationTypes, visibleTextEditors, decorations, run, lensCache,
                 lens, earlier, parsed, cpVars, ctVars, rsVars, dcVars>>

(***************************************************************************)
(* Specifications.                                                         *)
(***************************************************************************)
InitPaths == cpInit /\ ctIdle /\ rsIdle /\ dcIdle /\ pvIdle
NextPaths == CombineStep
SpecPaths == InitPaths /\ [][NextPaths]_vars

NextContract == VisitVariableStatement \/ VisitExportAssignment \/ ResolveRoute
InitContract == ctInit /\ cpIdle /\ rsIdle /\ dcIdle /\ pvIdle
SpecContract == InitContract /\ [][NextContract]_vars

InitResolve == rsInit /\ cpIdle /\ ctIdle /\ dcIdle /\ pvIdle
NextResolve == ResolveImport
SpecResolve == InitResolve /\ [][NextResolve]_vars

InitDecorators == dcInit /\ cpIdle /\ ctIdle /\ rsIdle /\ pvIdle
NextDecorators == AnalyzeModifier
SpecDecorators == InitDecorators /\ [][NextDecorators]_vars

Init == pvInit /\ cpIdle /\ ctIdle /\ rsIdle /\ dcIdle
Next ==
  \/ Tick
  \/ onDocumentChange
  \/ DebounceFire
  \/ onDocumentSave
  \/ onContractSave
  \/ ExternalWrite
  \/ onFilesDeleted
  \/ onActiveEditorChange
  \/ EditorHidden
  \/ onConfigurationChange
  \/ refreshAllAnnotations
  \/ ResolveDecorator
  \/ ApplyDecorations
Spec == Init /\ [][Next]_vars

\* Both providers on the same document and disk, the clock standing still.
InitPipeline == pvInit /\ cpIdle /\ ctIdle /\ rsIdle /\ dcIdle
NextPipeline ==
  \/ onDocumentChange
  \/ onDocumentSave
  \/ onContractSave
  \/ ExternalWrite
  \/ onFilesDeleted
  \/ onActiveEditorChange
  \/ EditorHidden
  \/ onConfigurationChange
  \/ refreshAllAnnotations
  \/ ResolveDecorator
  \/ ApplyDecorations
  \/ provideCodeLenses
SpecPipeline == InitPipeline /\ [][NextPipeline]_vars

\* One handler document with two decorators; the clock stands still.
InitIsolation == isolationInit /\ cpIdle /\ ctIdle /\ rsIdle /\ dcIdle
NextIsolation ==
  \/ onDocumentSave
  \/ onFilesDeleted
  \/ onActiveEditorChange
  \/ EditorHidden
  \/ onConfigurationChange
  \/ refreshAllAnnotations
  \/ ResolveDecorator
  \/ ApplyDecorations
SpecIsolation == InitIsolation /\ [][NextIsolation]_vars

\* Two updateAnnotations calls in progress at once; the clock stands still.
InitConcurrent == pvInit /\ cpIdle /\ ctIdle /\ rsIdle /\ dcIdle
NextConcurrent ==
  \/ onDocumentChange
  \/ onDocumentSave
  \/ onDocumentSaveDuringRun
  \/ onContractSave
  \/ onActiveEditorChange
  \/ ResolveDecorator
  \/ ApplyDecorations
  \/ ResolveDecoratorEarlier
  \/ ApplyDecorationsEarlier
SpecConcurrent == InitConcurrent /\ [][NextConcurrent]_vars

\* The contract cache alone: the file is written, saved and deleted, the
\* clock runs, and parseContractFile is called.
InitCache == pvInit /\ cpIdle /\ ctIdle /\ rsIdle /\ dcIdle
NextCache ==
  \/ Tick
  \/ onContractSave
  \/ ExternalWrite
  \/ onFilesDeleted
  \/ ParseContract
SpecCache == InitCache /\ [][NextCache]_vars

\* The contract file changes by saves only, between the calls of
\* updateAnnotations; the handler document stays as it is.
InitInvalidate == pvInit /\ cpIdle /\ ctIdle /\ rsIdle /\ dcIdle
NextInvalidate ==
  \/ Tick
  \/ onContractSaveBetweenRuns
  \/ onActiveEditorChange
  \/ EditorHidden
  \/ ResolveDecorator
  \/ ApplyDecorations
SpecInvalidate == InitInvalidate /\ [][NextInvalidate]_vars

\* Change events of several documents, the clock and the debounce timer.  The
\* clock advances and a timer that is due fires.
InitDebounce == pvIdle /\ cpIdle /\ ctIdle /\ rsIdle /\ dcIdle
NextDebounce ==
  \/ Tick
  \/ onDocumentChangeOf
  \/ DebounceFireOf
SpecDebounce ==
  InitDebounce /\ [][NextDebounce]_vars /\ WF_vars(Tick) /\ WF_vars(DebounceFireOf)

(***************************************************************************)
(* Claims.                                                                 *)
(***************************************************************************)
\* The composition as the specification words it.
WithLeadingSlash(s) == IF startsWith(s, "/") THEN s ELSE <<"/">> \o s
WithoutOneTrailingSlash(s) == IF endsWith(s, "/") THEN SubSeq(s, 1, Len(s) - 1) ELSE s
ReferenceCombine(P, R) ==
  IF P = <<>> THEN (IF R = <<>> THEN <<"/">> ELSE R)
  ELSE IF R = <<>> \/ R = <<"/">> THEN P
  ELSE WithoutOneTrailingSlash(WithLeadingSlash(P)) \o WithLeadingSlash(R)

\* C2: for every prefix P and route path R the composed path equals the
\* reference composition: R (or "/") without a prefix, P unchanged for an
\* empty or root route path, and otherwise P with a leading slash added and
\* one trailing slash removed followed by R with a leading slash added; the
\* prefix "/posts/" with the route path "/comments" gives "/posts/comments".
C2_PathComposition ==
  cpPc = "done" =>
    /\ cpOut = Str(ReferenceCombine(cpPrefix, cpRoute))
    /\ (cpPrefix = sPostsSlash /\ cpRoute = sComments => cpOut = Str(sPostsComments))

C2_Witness ==
  /\ cpPc = "done"
  /\ cpPrefix = sPostsSlash
  /\ cpRoute = sComments
  /\ cpOut = Str(sPostsComments)

\* C1: the README contract (a router with pathPrefix "/posts" bound to a
\* constant and default-exported), resolved for the path [createPost] under
\* a default import, yields POST, "/", full path "/posts" and the summary.
C1_ReadmeRoundTrip ==
  \A S \in Summaries :
    ( /\ ctPc = "done"
      /\ ctFile = ReadmeFile(S)
      /\ ctPath = <<"createPost">>
      /\ ctImport = ImportResolution("./x", "", TRUE) )
    => ctResult = RouteInfo(Str(sPOST), Str(<<"/">>), Str(S), Str(sPosts))

C1_Witness ==
  /\ ctPc = "done"
  /\ ctFile = ReadmeFile(sSummary)
  /\ ctPath = <<"createPost">>
  /\ ctImport = ImportResolution("./x", "", TRUE)
  /\ ctResult # Null
  /\ ctResult.fullPath = Str(sPosts)
  /\ ctResult.summary = Str(sSummary)

\* C3: every RouteInfo returned has a non-empty full path, and the full
\* path is "/" when no path prefix and no route path were found.
C3_FullPathNonEmpty ==
  (ctPc = "done" /\ ctResult # Null) =>
    /\ ctResult.fullPath # Str(<<>>)
    /\ Truthy(ctResult.fullPath)
    /\ ( (~Truthy(findPathPrefix(ctExports, ctPath)) /\ ~Truthy(ctResult.path))
         => ctResult.fullPath = Str(<<"/">>) )

C3_Witness ==
  /\ ctPc = "done"
  /\ ctResult # Null
  /\ ~Truthy(findPathPrefix(ctExports, ctPath))
  /\ ~Truthy(ctResult.path)
  /\ ctResult.fullPath = Str(<<"/">>)

\* C4: every RouteInfo returned has its method in uppercase whatever the
\* casing in the contract source, and GET when the route declares none.
C4_MethodUppercase ==
  (ctPc = "done" /\ ctResult # Null) =>
    /\ IsStr(ctResult.method) => ctResult.method.s = toUpperCase(ctResult.method.s)
    /\ ~Truthy(extractRouteDefinition(
                 findBaseContract(ctExports, ctPath, ctImport)).method)
       => ctResult.method = Str(sGET)

\* C7: without an exportName hint, when two sibling exports both hold a
\* route under the key getAll, the path [getAll] resolves to the route of
\* the sibling declared first, however the two are declared.
C7_FirstSiblingWins ==
  ( /\ ctPc = "done"
    /\ Len(ctFile) = 2
    /\ ctFile[1] \in SiblingStatements
    /\ ctFile[2] \in SiblingStatements
    /\ ctFile[1].declarations[1].name # ctFile[2].declarations[1].name
    /\ ctImport.exportName = ""
    /\ ctPath = <<"getAll">> )
  => /\ ctResult # Null
     /\ ctResult.path = Str(SiblingPath(ctFile[1].declarations[1].name))

\* The base the claim names for each relative specifier: the directory of
\* the importing file joined with the specifier.
ClaimBase(specifier) ==
  CASE specifier = <<".", "/", "c">> -> << <<"s">>, <<"c">> >>
    [] specifier = <<".", "/", "c", "/">> -> << <<"s">>, <<"c">> >>
    [] specifier = <<".", ".", "/", "c">> -> << <<"c">> >>
    [] specifier = <<".", "/", "d", "/", "c">> -> << <<"s">>, <<"d">>, <<"c">> >>

\* base.ts, base.tsx, base.js, base.jsx, base/index.ts, base/index.tsx,
\* base/index.js, base/index.jsx
ClaimCandidates(base) ==
  << Path([base EXCEPT ![Len(base)] = @ \o <<".", "t", "s">>]),
     Path([base EXCEPT ![Len(base)] = @ \o <<".", "t", "s", "x">>]),
     Path([base EXCEPT ![Len(base)] = @ \o <<".", "j", "s">>]),
     Path([base EXCEPT ![Len(base)] = @ \o <<".", "j", "s", "x">>]),
     Path(base \o << <<"i", "n", "d", "e", "x", ".", "t", "s">> >>),
     Path(base \o << <<"i", "n", "d", "e", "x", ".", "t", "s", "x">> >>),
     Path(base \o << <<"i", "n", "d", "e", "x", ".", "j", "s">> >>),
     Path(base \o << <<"i", "n", "d", "e", "x", ".", "j", "s", "x">> >>) >>

FirstExisting(candidates, files) ==
  IF \E i \in 1..Len(candidates) : candidates[i] \in files
  THEN candidates[CHOOSE i \in 1..Len(candidates) :
                    /\ candidates[i] \in files
                    /\ \A j \in 1..(i - 1) : candidates[j] \notin files]
  ELSE Null

\* C5: for a relative specifier the resolver returns the first candidate on
\* disk in the order base.ts, base.tsx, base.js, base.jsx, base/index.ts,
\* base/index.tsx, base/index.js, base/index.jsx, and none when there is
\* none; with no direct file and base/index.ts present the index file is
\* returned, and with base.ts and base/index.ts both present base.ts is.
C5_CandidateOrder ==
  (rsPc = "done" /\ startsWith(rsImportPath, ".")) =>
    LET candidates == ClaimCandidates(ClaimBase(rsImportPath))
    IN /\ rsResult = FirstExisting(candidates, rsDisk)
       /\ ( (\A i \in 1..4 : candidates[i] \notin rsDisk) /\ candidates[5] \in rsDisk
            => rsResult = candidates[5] )
       /\ ( candidates[1] \in rsDisk /\ candidates[5] \in rsDisk
            => rsResult = candidates[1] )

C5_Witness ==
  /\ rsPc = "done"
  /\ rsImportPath = <<".", "/", "c">>
  /\ \A i \in 1..4 : ClaimCandidates(ClaimBase(rsImportPath))[i] \notin rsDisk
  /\ ClaimCandidates(ClaimBase(rsImportPath))[5] \in rsDisk
  /\ rsResult = Path(<< <<"s">>, <<"c">>, <<"i", "n", "d", "e", "x", ".", "t", "s">> >>)

\* The base of a chain of property accesses, and the accessed names as they
\* stand in the source, left to right.
RECURSIVE ChainBase(_)
ChainBase(expression) ==
  IF expression.k = "PropertyAccessExpression" THEN ChainBase(expression.expression)
  ELSE expression

RECURSIVE ChainNames(_)
ChainNames(expression) ==
  IF expression.k = "PropertyAccessExpression"
  THEN Append(ChainNames(expression.expression), expression.name)
  ELSE <<>>

\* a call to TsRestHandler (plain or qualified) with exactly one argument
\* whose chain ends in a plain identifier
WellShaped(modifier) ==
  /\ modifier.mk = "Decorator"
  /\ modifier.expression.k = "CallExpression"
  /\ modifier.expression.calleeKind \in {"Identifier", "PropertyAccessExpression"}
  /\ modifier.expression.calleeName = sTsRestHandler
  /\ Len(modifier.expression.args) = 1
  /\ ChainBase(modifier.expression.args[1]).k = "Identifier"

RECURSIVE ExpectedReferences(_, _)
ExpectedReferences(modifiers, n) ==
  IF n = 0 THEN <<>>
  ELSE LET before == ExpectedReferences(modifiers, n - 1)
           argument == modifiers[n].expression.args[1]
       IN IF WellShaped(modifiers[n])
          THEN Append(before, [line |-> n,
                               contractReference |-> ChainBase(argument).id,
                               contractPropertyPath |-> ChainNames(argument)])
          ELSE before

\* C9: the extractor emits a reference exactly for the decorators that are
\* calls to TsRestHandler with one argument whose access chain ends in a
\* plain identifier; every other modifier is skipped without disturbing the
\* references of the others, and each emitted path lists the accessed names
\* left to right.
C9_DecoratorExtraction ==
  dcDecorators = ExpectedReferences(dcModifiers, dcIndex)

C9_Witness ==
  /\ dcIndex = 2
  /\ dcModifiers[1] = Decorator(TsRestHandlerCall(<<PropertyAccessExpression(
                          Call(<<"g", "e", "t">>, <<>>), "getAll")>>))
  /\ dcModifiers[2] = Decorator(TsRestHandlerCall(<<cPostsCreatePost>>))
  /\ dcDecorators = << HandlerDecoratorInfo(2, "c", <<"posts", "createPost">>) >>

\* The resolver answers none for a specifier that does not begin with ".",
\* whatever the disk holds (the first part of C6, on the resolver alone).
NonRelativeIsNone ==
  (rsPc = "done" /\ ~startsWith(rsImportPath, ".")) => rsResult = Null

\* the import a resolved decorator of the run is bound to
BoundImport(i) == Get(run.imports, run.decorators[i].contractReference)

\* C6: the resolver returns none for every specifier that does not begin
\* with ".", and no decorator whose base identifier is bound to such a
\* specifier receives a RouteInfo.
C6_NonRelativeNoRoute ==
  /\ \A specifier \in Specifiers :
       ~startsWith(specifier, ".")
         => resolveImportPath(specifier, fromFile, DOMAIN disk) = Null
  /\ \A i \in 1..Len(run.results) :
       (BoundImport(i) # Undef /\ ~startsWith(BoundImport(i).filePath, "."))
         => run.results[i] = Null

\* C8: a resolution that is repeated for the same importing file, line,
\* base identifier and property path, at the same or any later time, with
\* no file change and no cache clearing in between, returns what the first
\* returned.
C8_Idempotent ==
  [][ (run.pc = "resolving" /\ Len(run'.results) = Len(run.results) + 1)
      => \A time \in now..MaxTime :
           resolveRouteInfo(run.decorators[Len(run'.results)], run.imports, fromFile,
                            routeCache', contractCache', disk, time).value
             = run'.results[Len(run'.results)] ]_vars

\* C10: a document without a matching decorator gets an empty result:
\* updateAnnotations resolves nothing and leaves the document without
\* decorations, and provideCodeLenses returns the empty list.
C10_ZeroDecorators ==
  /\ (run.pc = "done" /\ Len(run.decorators) = 0)
       => /\ run.results = <<>>
          /\ run.metrics = noMetrics
          /\ decorations = <<>>
  /\ (lens.pc = "done" /\ Len(lens.decorators) = 0) => lens.codeLenses = <<>>

C10_Witness ==
  /\ run.pc = "done"
  /\ Len(run.decorators) = 0
  /\ Len(document.modifiers) = 1
  /\ fromFile \in decorationTypes
  /\ fromFile \in visibleTextEditors
  /\ routeCache # EmptyMap
  /\ decorations = <<>>
  /\ lens.pc = "done"
  /\ lens.decorators = <<>>
  /\ lens.codeLenses = <<>>

(***************************************************************************)
(* C11: in one updateAnnotations run, whatever is wrong with the contract  *)
(* reference of one decorator, every other decorator whose reference       *)
(* resolved to a RouteInfo that can be shown has a decoration on its line  *)
(* once the run has ended with the editor visible.                         *)
(***************************************************************************)
Showable(routeInfo) ==
  /\ routeInfo # Null
  /\ formatAnnotationText(routeInfo) # Throw
  /\ Truthy(formatAnnotationText(routeInfo))

C11_Isolation ==
  [][ (run.pc = "resolving" /\ run'.pc # "resolving" /\ fromFile \in visibleTextEditors)
      => \A j \in 1..Len(run.results) :
           Showable(run.results[j])
             => \E k \in 1..Len(decorations') :
                  decorations'[k].line = run.decorators[j].line ]_vars

(***************************************************************************)
(* C12: when a call of updateAnnotations that was issued earlier ends      *)
(* after the call issued after it has ended, it leaves the decorations of  *)
(* the later call as they are.                                             *)
(***************************************************************************)
C12_LastIssuedWins ==
  [][ (/\ earlier.pc = "resolving"
       /\ earlier'.pc # "resolving"
       /\ run.pc = "done"
       /\ fromFile \in visibleTextEditors)
      => decorations' = decorations ]_vars

(***************************************************************************)
(* C13: a call of parseContractFile returns the cached ContractFile and    *)
(* reads nothing exactly when the path has an entry, the stat succeeds and *)
(* the modification time is at most the entry's lastModified; in every     *)
(* other case it returns the table of the file as it is on disk, stamped   *)
(* with the time of the call, and the cache holds that ContractFile.       *)
(***************************************************************************)
Reusable ==
  /\ contractFilePath \in DOMAIN contractCache
  /\ contractFilePath \in DOMAIN disk
  /\ disk[contractFilePath].mtime <= contractCache[contractFilePath].lastModified

C13_CacheReuse ==
  [][ parsed' # parsed
      => IF Reusable
         THEN /\ ~parsed'.read
              /\ parsed'.value = contractCache[contractFilePath]
              /\ contractCache' = contractCache
         ELSE /\ parsed'.read
              /\ parsed'.value # Throw
              /\ parsed'.value.lastModified = now
              /\ MapGet(contractCache', contractFilePath) = parsed'.value ]_vars

(***************************************************************************)
(* C14: extractRouteInfo never raises, and it returns none when the named  *)
(* export is absent, when the key is found in no export, and when the base *)
(* value carries no method, no path, no method-call tag and no route field.*)
(***************************************************************************)
NamedExportAbsent ==
  ctImport.exportName # "" /\ ~Has(ctExports, ctImport.exportName)

KeyNotFound == ~Truthy(findBaseContract(ctExports, ctPath, ctImport))

CarriesNoRoute(base) ==
  /\ ~Truthy(Prop(base, "method"))
  /\ ~Truthy(Prop(base, "path"))
  /\ ~Truthy(Prop(base, "__call"))
  /\ ~Truthy(Prop(base, "route"))

C14_NotFoundIsNone ==
  ctPc = "done"
    => /\ ctResult # Throw
       /\ NamedExportAbsent => ctResult = Null
       /\ KeyNotFound => ctResult = Null
       /\ CarriesNoRoute(findBaseContract(ctExports, ctPath, ctImport))
            => ctResult = Null

(***************************************************************************)
(* C15: none of the entry points ends with an exception: resolveImportPath *)
(* and extractRouteInfo return a value or none, a call of updateAnnotations*)
(* ends with every decorator answered by a RouteInfo or none, and          *)
(* parseContractFile returns a ContractFile.                               *)
(***************************************************************************)
C15_NoExceptionEscapes ==
  /\ rsResult # Throw
  /\ ctResult # Throw
  /\ \A i \in 1..Len(run.results) : run.results[i] # Throw
  /\ parsed # Null => parsed.value # Throw

(***************************************************************************)
(* C16: a call of updateAnnotations issued after the last save of the      *)
(* contract file applies the decorations computed from the content the     *)
(* file has: what it sets is what resolving every decorator with empty     *)
(* caches gives.                                                           *)
(***************************************************************************)
RECURSIVE freshResults(_, _, _)
freshResults(decorators, imports, i) ==
  IF i > Len(decorators) THEN <<>>
  ELSE << resolveFresh(decorators[i], imports, fromFile, EmptyMap, disk, now).value >>
       \o freshResults(decorators, imports, i + 1)

C16_SaveInvalidates ==
  [][ (run.pc = "resolving" /\ run'.pc = "done" /\ fromFile \in visibleTextEditors)
      => decorations' =
           createDecorations(run.decorators,
                             freshResults(run.decorators, run.imports, 1)).options ]_vars

(***************************************************************************)
(* C17: the value stored for a binding whose initializer is an object      *)
(* literal carries neither the router tag, nor router options, nor the     *)
(* method-call tag, and path-prefix discovery finds no router in it.       *)
(***************************************************************************)
\* the statements of the file that declare one binding by an object literal
\* and whose binding no later statement declares again
LiteralBindings ==
  { i \in 1..Len(ctFile) :
      /\ ctFile[i].sk = "VariableStatement"
      /\ Len(ctFile[i].declarations) = 1
      /\ ctFile[i].declarations[1].init.k = "ObjectLiteralExpression"
      /\ \A j \in (i + 1)..Len(ctFile) :
           ctFile[j].sk = "VariableStatement"
             => ctFile[j].declarations[1].name # ctFile[i].declarations[1].name }

Untagged(value) ==
  /\ ~Has(value.kv, "__router")
  /\ ~Has(value.kv, "__options")
  /\ ~Has(value.kv, "__call")
  /\ routerPathPrefix(value) = Undef

C17_TagsAreSynthesized ==
  \A i \in LiteralBindings : Untagged(Get(ctExports, ctFile[i].declarations[1].name))

(***************************************************************************)
(* C18: with an import that names no export, when the one segment of the   *)
(* path names no export and the "default" entry has a direct child of that *)
(* name carrying a method or a path, the result is the RouteInfo of that   *)
(* child.                                                                  *)
(***************************************************************************)
DefaultChild == Prop(Get(ctExports, "default"), ctPath[1])

DefaultChildIsRoute ==
  /\ ctImport.exportName = ""
  /\ Len(ctPath) = 1
  /\ ~Has(ctExports, ctPath[1])
  /\ IsObj(DefaultChild)
  /\ Truthy(Prop(DefaultChild, "method")) \/ Truthy(Prop(DefaultChild, "path"))

C18_DefaultFallback ==
  (ctPc = "done" /\ DefaultChildIsRoute)
    => /\ ctResult # Null
       /\ ctResult.path = Or(Prop(DefaultChild, "path"), Str(<<>>))
       /\ ctResult.method = Or(Prop(DefaultChild, "method"), Str(sGET))

(***************************************************************************)
(* C19: when the import names an export E, the route is looked up inside E *)
(* only: when the table has no E, or E has the first segment of the path   *)
(* neither as a child nor as a child of a child, the result is none,       *)
(* whatever the other exports hold.                                        *)
(***************************************************************************)
HasMatch(value, key) ==
  /\ IsObj(value)
  /\ \/ Has(value.kv, key)
     \/ \E i \in 1..Len(value.kv) :
          IsObj(value.kv[i][2]) /\ Has(value.kv[i][2].kv, key)

NoMatchInNamed ==
  /\ ctImport.exportName # ""
  /\ Len(ctPath) > 0
  /\ \/ ~Has(ctExports, ctImport.exportName)
     \/ ~HasMatch(Get(ctExports, ctImport.exportName), ctPath[1])

C19_NamedExportScoped ==
  (ctPc = "done" /\ NoMatchInNamed) => ctResult = Null

\* another export holds a route of that name
C19_Witness ==
  /\ ctPc = "done"
  /\ NoMatchInNamed
  /\ ctResult = Null
  /\ \E i \in 1..Len(ctExports) :
       /\ ctExports[i][1] # ctImport.exportName
       /\ extractRouteDefinition(Prop(ctExports[i][2], ctPath[1])) \notin {Null, Throw}

(***************************************************************************)
(* C20: every declaration of the file whose initializer evaluates to a     *)
(* value other than null has an entry under its name in the export table,  *)
(* and a name whose every initializer evaluates to null has none.          *)
(***************************************************************************)
\* the declarations of the file: <<statement, declaration>> index pairs
Declarations ==
  UNION { { <<i, j>> : j \in 1..Len(ctFile[i].declarations) } :
          i \in { k \in 1..Len(ctFile) : ctFile[k].sk = "VariableStatement" } }

Declared(d) == ctFile[d[1]].declarations[d[2]]

Evaluated(d) ==
  IF Declared(d).nameKind = "Identifier" /\ Declared(d).hasInit
  THEN extractObjectLiteral(Declared(d).init) ELSE Null

C20_NonNullIsStored ==
  \A d \in Declarations :
    /\ Evaluated(d) # Null => Has(ctExports, Declared(d).name)
    /\ (\A e \in Declarations :
          Declared(e).name = Declared(d).name => Evaluated(e) = Null)
         => ~Has(ctExports, Declared(d).name)

(***************************************************************************)
(* C21: "default" is written by exported variable statements with exactly  *)
(* one binding that is stored and by export assignments whose value is not *)
(* null, and by nothing else: with no such statement in the file the table *)
(* has no "default", otherwise "default" holds the value of the last one.  *)
(***************************************************************************)
StoredBinding(declaration) ==
  /\ declaration.nameKind = "Identifier"
  /\ declaration.hasInit
  /\ Truthy(extractObjectLiteral(declaration.init))

DefaultWriters ==
  { i \in 1..Len(ctFile) :
      \/ /\ ctFile[i].sk = "VariableStatement"
         /\ ctFile[i].isExported
         /\ Len(ctFile[i].declarations) = 1
         /\ StoredBinding(ctFile[i].declarations[1])
      \/ /\ ctFile[i].sk = "ExportAssignment"
         /\ extractObjectLiteral(ctFile[i].expression) # Null }

LastIndex(S) == CHOOSE i \in S : \A j \in S : j <= i

WrittenBy(node) ==
  IF node.sk = "VariableStatement" THEN extractObjectLiteral(node.declarations[1].init)
  ELSE extractObjectLiteral(node.expression)

C21_DefaultWriters ==
  IF DefaultWriters = {} THEN ~Has(ctExports, "default")
  ELSE Get(ctExports, "default") = WrittenBy(ctFile[LastIndex(DefaultWriters)])

(***************************************************************************)
(* C22: the full path of every RouteInfo is composed with the pathPrefix   *)
(* of the first router met when the exports are walked in table order,     *)
(* each export before its own object children, and with the empty string   *)
(* when that walk meets no router with a pathPrefix; neither the property  *)
(* path nor the import enters.                                             *)
(***************************************************************************)
RECURSIVE ChildValues(_, _)
\* the object-valued children of a value, in key order
ChildValues(kv, i) ==
  IF i > Len(kv) THEN <<>>
  ELSE (IF IsObj(kv[i][2]) THEN << kv[i][2] >> ELSE <<>>) \o ChildValues(kv, i + 1)

RECURSIVE RouterCandidates(_, _)
\* every export followed by its object-valued children, in table order
RouterCandidates(exports, i) ==
  IF i > Len(exports) THEN <<>>
  ELSE (IF IsObj(exports[i][2])
        THEN << exports[i][2] >> \o ChildValues(exports[i][2].kv, 1) ELSE <<>>)
       \o RouterCandidates(exports, i + 1)

FirstRouterPrefix(exports) ==
  LET candidates == RouterCandidates(exports, 1)
      first == FirstIndex({i \in 1..Len(candidates) :
                            Truthy(routerPathPrefix(candidates[i]))})
  IN IF first = 0 THEN Str(<<>>) ELSE routerPathPrefix(candidates[first])

C22_GlobalFirstPrefix ==
  (ctPc = "done" /\ ctResult # Null)
    => ctResult.fullPath = combinePaths(FirstRouterPrefix(ctExports), ctResult.path)

\* the route comes from the router b, the prefix from the router a
C22_Witness ==
  /\ ctPc = "done"
  /\ ctResult # Null
  /\ ctImport.exportName = "b"
  /\ Truthy(routerPathPrefix(Get(ctExports, "b")))
  /\ FirstRouterPrefix(ctExports) # routerPathPrefix(Get(ctExports, "b"))
  /\ ctResult.fullPath = combinePaths(routerPathPrefix(Get(ctExports, "a")), ctResult.path)

(***************************************************************************)
(* C23: a call of a property named as an HTTP verb, in any case, evaluates *)
(* to an object with the method-call tag, the uppercased name as method,   *)
(* the text of a string-literal first argument as path, and every field of *)
(* the evaluated second argument; a call of a property named router        *)
(* evaluates to a router; every other call evaluates to null.              *)
(***************************************************************************)
\* the initializers of the file that are calls
CallInits ==
  { Declared(d).init : d \in { e \in Declarations :
                                 Declared(e).init.k = "CallExpression" } }

IsVerbCall(node) ==
  /\ node.calleeKind = "PropertyAccessExpression"
  /\ node.calleeName # sRouter
  /\ toLowerCase(node.calleeName) \in httpMethods

MethodCallValue(node, value) ==
  /\ IsObj(value)
  /\ Prop(value, "__call") = Bool(TRUE)
  /\ Prop(value, "method") = Str(toUpperCase(node.calleeName))
  /\ (Len(node.args) >= 1 /\ node.args[1].k = "StringLiteral")
       => Prop(value, "path") = Str(node.args[1].text)
  /\ (Len(node.args) >= 2 /\ IsObj(extractObjectLiteral(node.args[2])))
       => \A i \in 1..Len(extractObjectLiteral(node.args[2]).kv) :
            Has(value.kv, extractObjectLiteral(node.args[2]).kv[i][1])

C23_CallEvaluation ==
  \A node \in CallInits :
    IF IsVerbCall(node) THEN MethodCallValue(node, extractObjectLiteral(node))
    ELSE IF node.calleeKind = "PropertyAccessExpression" /\ node.calleeName = sRouter
    THEN Prop(extractObjectLiteral(node), "__router") = Bool(TRUE)
    ELSE extractObjectLiteral(node) = Null

(***************************************************************************)
(* C24: a method-shorthand member of an object literal is never taken for  *)
(* route data: when the property path of a decorator lands on the value    *)
(* recorded for such a member, extractRouteInfo returns none.              *)
(***************************************************************************)
\* the value extractObjectLiteral records for a member written name() {}
MethodMarker == Obj(<< <<"__method", Bool(TRUE)>> >>)

C24_ShorthandIsNoRoute ==
  (ctPc = "done" /\ findBaseContract(ctExports, ctPath, ctImport) = MethodMarker)
    => ctResult = Null

(***************************************************************************)
(* C25: the lookup of a key k in an object O returns the direct child k of *)
(* O when O has one; otherwise the child k of the first object-valued      *)
(* child of O, in key order and leaving out the entries whose key is a     *)
(* sentinel of the evaluator, that has a child k; otherwise none.  It      *)
(* never goes deeper than one level below O.                               *)
(***************************************************************************)
LookupKeys == {"getAll", "pathPrefix", "summary", "method"}

\* the children of O the scan of findRouteInContract may enter, with a
\* child k
ScannedChildren(O, k) ==
  { i \in 1..Len(O.kv) : /\ IsObj(O.kv[i][2])
                         /\ ~startsWithDunder(O.kv[i][1])
                         /\ Has(O.kv[i][2].kv, k) }

DirectThenChild(O, k) ==
  IF ~IsObj(O) THEN Null
  ELSE IF Has(O.kv, k) THEN Get(O.kv, k)
  ELSE IF ScannedChildren(O, k) # {}
       THEN Get(O.kv[FirstIndex(ScannedChildren(O, k))][2].kv, k)
       ELSE Null

C25_RouterAwareLookup ==
  \A i \in 1..Len(ctExports) : \A k \in LookupKeys :
    findRouteInContract(ctExports[i][2], <<k>>) = DirectThenChild(ctExports[i][2], k)

(***************************************************************************)
(* C26: after change events of two TypeScript documents, once no further   *)
(* change arrives, updateAnnotations runs for each of the two documents;   *)
(* and a run that the timer starts for a document starts for a document    *)
(* with a change waiting, no sooner than DEBOUNCE_DELAY after that         *)
(* document's last change.                                                 *)
(***************************************************************************)
EveryEditAnnotated ==
  \A d \in TsDocuments : edited[d].stale ~> ~edited[d].stale

OneRunAfterQuiet ==
  [][ \A d \in TsDocuments :
        (edited[d].stale /\ ~edited'[d].stale)
          => now >= edited[d].at + DEBOUNCE_DELAY ]_vars

C26_EditsGetAnnotated == EveryEditAnnotated /\ OneRunAfterQuiet

(***************************************************************************)
(* C27: from the moment the change of the setting to enabled = false has   *)
(* been handled until annotations are enabled again, the visible handler   *)
(* document shows no annotation, whatever updateAnnotations calls or       *)
(* timers were started before the change.                                  *)
(***************************************************************************)
C27_DisabledShowsNothing == ~configEnabled => decorations = <<>>

(***************************************************************************)
(* C28: a decorator whose argument is a bare identifier is extracted with  *)
(* an empty property path, and for the empty path extractRouteInfo returns *)
(* none under every export table and every import, a named import of an    *)
(* export that is itself a route included.                                 *)
(***************************************************************************)
C28_BareIdentifierNoRoute ==
  /\ extractContractReference(Identifier("c")) = [base |-> "c", propertyPath |-> <<>>]
  /\ (ctPc = "done" /\ ctPath = <<>>) => ctResult = Null

\* the empty path was resolved with a named import of an export that is a
\* route definition
C28_Witness ==
  /\ ctPc = "done"
  /\ ctPath = <<>>
  /\ ctImport.exportName = "a"
  /\ extractRouteDefinition(Get(ctExports, "a")) \notin {Null, Throw}
  /\ ctResult = Null

(***************************************************************************)
(* C29: whenever parseContractFile returns the cached ContractFile, its    *)
(* exports are those a fresh parse of the file as it is on disk would      *)
(* give, whatever writes to the file came before the call, a write in the  *)
(* clock tick of the build included.                                       *)
(***************************************************************************)
C29_CachedIsCurrent ==
  [][ (parsed' # parsed /\ parsed'.value # Throw /\ ~parsed'.read)
      => parsed'.value.exports = extractExports(disk[contractFilePath].text) ]_vars

(***************************************************************************)
(* C30: when the file holds an export assignment whose expression          *)
(* evaluates to a value V other than null, the entry "default" of the      *)
(* export table built from the file is V, whether the export assignment    *)
(* stands before or after the exported variable statements.                *)
(***************************************************************************)
\* statement i is the file's one export assignment
TheExportAssignment(i) ==
  /\ ctFile[i].sk = "ExportAssignment"
  /\ \A j \in 1..Len(ctFile) : ctFile[j].sk = "ExportAssignment" => j = i

C30_ExportAssignmentIsDefault ==
  \A i \in 1..Len(ctFile) :
    (TheExportAssignment(i) /\ extractObjectLiteral(ctFile[i].expression) # Null)
      => Get(ctExports, "default") = extractObjectLiteral(ctFile[i].expression)

====
